---- MODULE Spec2Model ----
(***************************************************************************)
(* Model of the consumer-newsletter backend (src/app.py and the provider   *)
(* adapters under src/backend/integrations).                               *)
(*                                                                         *)
(* Request handlers are sequential: one action per handler computes the    *)
(* whole response from the process configuration (which provider clients   *)
(* exist), the request and the outcomes of the provider calls it makes.    *)
(* The draft store is shared between requests, so the handlers that touch  *)
(* it are split at their storage calls and interleaved.                    *)
(***************************************************************************)
EXTENDS Integers, Sequences, FiniteSets, TLC

VARIABLES
    youtube_client,     \* youtube_client.py:22   TRUE when the client has an API key
    perplexity_client,  \* app.py:109,132-136     "None" | "nokey" | "ok"
    claude_client,      \* app.py:107,126-130     TRUE when the client object exists
    gemini_client,      \* app.py:108,117-124     "None" | "nokey" | "ok"
    gcs_client,         \* app.py:145-151         TRUE when the storage client exists
    sendgrid,           \* app.py:25-30,1431      "nolib" | "nokey" | "ok"
    gtp_in,             \* the request given to gtp_search and the provider outcomes it met
    gtp_queries,        \* search_queries as sent to the search provider, in order
    gtp_resp,           \* the response of the last gtp_search, or NoResp
    blobs,              \* the bucket GCS_DRAFTS_BUCKET: blob name -> content
    worker,             \* per request thread: the request in progress and its position
    nreq,               \* number of requests received so far
    uploaded,           \* history: per blob name, the requests whose upload reached it, in order
    api_in,             \* the request given to an /api handler and the provider outcomes it met
    api_resp,           \* what that handler answered
    adapter_call,       \* the adapter method called, its arguments and the provider outcomes
    adapter_result,     \* what the method gave back to its caller
    nl_in,              \* the request given to generate_newsletter and the outcome of each call
    nl_resp,            \* what generate_newsletter answered
    channel,            \* the videos of the YouTube channel, as the provider lists them
    pj_in,              \* the content given to parse_json_from_llm
    pj_out,             \* what parse_json_from_llm returned or raised
    clean,              \* a text, and what a cleanup made of it once and twice
    pplx,               \* a 200 answer of Perplexity, and the results search made of it
    gen,                \* a text-generation request, the text Claude returned and the answer
    brand,              \* a check_brand_guidelines request, what Claude returned and the answer
    meta,               \* a fetch_article_metadata request, what the fetch came to and the answer
    sa                  \* per request thread: the saved-articles request in progress and its position

cfgVars == <<youtube_client, perplexity_client, claude_client, gemini_client, gcs_client,
             sendgrid, channel>>
gtpVars == <<gtp_in, gtp_queries, gtp_resp>>
draftVars == <<blobs, worker, nreq, uploaded>>
apiVars == <<api_in, api_resp>>
adapterVars == <<adapter_call, adapter_result>>
nlVars == <<nl_in, nl_resp>>
parseVars == <<pj_in, pj_out>>
cleanVars == <<clean>>
answerVars == <<pplx>>
genVars == <<gen>>
brandVars == <<brand>>
metaVars == <<meta>>
savedVars == <<sa>>
pureVars == <<parseVars, cleanVars, answerVars, genVars, brandVars, metaVars, savedVars>>
handlerVars == <<cfgVars, gtpVars, draftVars, apiVars, adapterVars, nlVars>>
exceptParse == <<handlerVars, cleanVars, answerVars, genVars, brandVars, metaVars, savedVars>>
exceptClean == <<handlerVars, parseVars, answerVars, genVars, brandVars, metaVars, savedVars>>
exceptAnswer == <<handlerVars, parseVars, cleanVars, genVars, brandVars, metaVars, savedVars>>
exceptGen == <<handlerVars, parseVars, cleanVars, answerVars, brandVars, metaVars, savedVars>>
exceptBrand == <<handlerVars, parseVars, cleanVars, answerVars, genVars, metaVars, savedVars>>
exceptMeta == <<handlerVars, parseVars, cleanVars, answerVars, genVars, brandVars, savedVars>>
exceptSaved == <<handlerVars, parseVars, cleanVars, answerVars, genVars, brandVars, metaVars>>
vars == <<cfgVars, gtpVars, draftVars, apiVars, adapterVars, nlVars, pureVars>>

(***************************************************************************)
(* Bounds                                                                  *)
(***************************************************************************)
MaxResults == 2     \* longest result list one search call returns in the model
MaxExpand == 4      \* longest array the query expansion returns in the model
MaxRequests == 3    \* requests the draft store receives in one run
MaxVideos == 2      \* largest max_results and count asked of an adapter in the model
MaxPrompts == 2     \* most prompts in one generate_images request
MaxRecipients == 2  \* most recipients in one send request
MaxContent == 3     \* longest LLM content, in tokens, given to parse_json_from_llm
MaxString == 3      \* longest JSON string, in tokens, inside a serialised value
MaxTitle == 5       \* longest text given to strip_ai_title
MaxIntro == 4       \* longest content given to generate_intro
MaxMarkdown == 6    \* longest text given to convert_markdown_to_html
MaxStars == 9       \* longest text of asterisks and letters given to it
MaxCitations == 2   \* most citations, and most results or URLs, in one Perplexity answer
MaxExcess == 1      \* most words by which a generated text exceeds its limit

NoResp == [status |-> 0, success |-> FALSE, error |-> "", results |-> <<>>]
NoInput == [body |-> "idle", exp |-> [kind |-> "skipped", items |-> <<>>], outcomes |-> <<>>]

Min(a, b) == IF a < b THEN a ELSE b

SeqsUpTo(S, n) == UNION {[1..k -> S] : k \in 0..n}

(***************************************************************************)
(* The values of a group of variables while its handlers are not modelled  *)
(***************************************************************************)
\* The request threads of the server
Workers == {"w1", "w2"}
NoApiIn == [handler |-> "none", body |-> "idle", url |-> <<>>, outcomes |-> <<>>,
            opts |-> <<>>]
NoToken == <<>>
\* The channel while the video adapter is not modelled: three videos, newest first.
DefaultChannel == <<[video_id |-> "v1", view_count |-> 5],
                    [video_id |-> "v2", view_count |-> 9],
                    [video_id |-> "v3", view_count |-> 5]>>
NoApiResp == [status |-> 0, success |-> FALSE, error |-> FALSE, calls |-> 0,
              attempted |-> <<>>, sent |-> <<>>, errors |-> <<>>, next_page_token |-> NoToken,
              images |-> <<>>]
\* The slots of generated that a text-generation call can fill.
Slots == {"intro", "agenda_items", "news_of_month", "trend_alert", "guess_the_price",
          "quick_tip"}
NoNlIn == [body |-> "idle", intro |-> FALSE, news_of_month |-> FALSE, trend_alert |-> FALSE,
           guess_the_price |-> FALSE, quick_tip |-> FALSE, calls |-> [s \in Slots |-> "ok"]]
NoNlResp == [status |-> 0, success |-> FALSE, error |-> FALSE,
             generated |-> [s \in Slots |-> "absent"]]
NoCall == [method |-> "none", url |-> <<>>, sort |-> "", n |-> 0, category |-> FALSE,
           outcomes |-> <<>>, searched |-> [kind |-> "none", urls |-> <<>>],
           page_token |-> NoToken]
NoResult == [kind |-> "idle", items |-> <<>>, next_page_token |-> NoToken, requests |-> 0]

NoContent == [content |-> <<>>, json |-> <<>>, form |-> "none"]
NoParsed == [kind |-> "none", value |-> <<>>, doc |-> <<>>]
NoParse == [of |-> NoParsed, bare |-> NoParsed]
ParseIdle == pj_in = NoContent /\ pj_out = NoParse
NoClean == [fn |-> "idle", text |-> <<>>, once |-> <<>>, twice |-> <<>>]
CleanIdle == clean = NoClean
NoAnswer == [content |-> [kind |-> "none", results |-> <<>>, urls |-> <<>>],
             citations |-> <<>>, max_results |-> 0, results |-> <<>>]
AnswerIdle == pplx = NoAnswer
NoGen == [handler |-> "none", section |-> "", outcome |-> "", title |-> 0, body |-> 0,
          status |-> 0, success |-> FALSE, words |-> 0]
GenIdle == gen = NoGen
NoPayload == [kind |-> "none", value |-> <<>>, raw |-> <<>>]
NoBrand == [outcome |-> "", content |-> <<>>, status |-> 0, success |-> FALSE,
            brand_check |-> NoPayload]
BrandIdle == brand = NoBrand
NoUrl == [netloc |-> <<>>, path |-> ""]
NoMetadata == [title |-> "", description |-> 0, image |-> "", publisher |-> <<>>,
               published_date |-> "", url |-> NoUrl]
NoFetchError == [text |-> "", exc |-> "", code |-> 0]
NoFetch == [kind |-> "none", exc |-> "", code |-> 0]
NoMeta == [url |-> NoUrl, fetch |-> NoFetch, status |-> 0, success |-> FALSE,
           error |-> NoFetchError, metadata |-> NoMetadata]
MetaIdle == meta = NoMeta
IdleSaver == [op |-> "none", pc |-> "idle", req |-> 0, url |-> "", read |-> <<>>,
              status |-> 0, overlap |-> FALSE]
SavedIdle == sa = [w \in Workers |-> IdleSaver]
PureIdle == ParseIdle /\ CleanIdle /\ AnswerIdle /\ GenIdle /\ BrandIdle /\ MetaIdle /\ SavedIdle

ApiIdle == api_in = NoApiIn /\ api_resp = NoApiResp
AdapterIdle == adapter_call = NoCall /\ adapter_result = NoResult
NewsletterIdle == nl_in = NoNlIn /\ nl_resp = NoNlResp

(***************************************************************************)
(* The draft store and the request threads that use it                     *)
(***************************************************************************)

IdleWorker == [op |-> "none", pc |-> "idle", req |-> 0, name |-> <<>>, dest |-> <<>>,
               status |-> 0, file |-> <<>>, overlap |-> FALSE,
               month |-> <<>>, year |-> "", savedBy |-> <<>>]

\* The values of the storage variables while no draft request is modelled.
DraftsIdle ==
    /\ blobs = <<>>
    /\ worker = [w \in Workers |-> IdleWorker]
    /\ nreq = 0
    /\ uploaded = <<>>

\* Strings are sequences of characters; a path element such as "drafts/" or
\* ".json" that the code handles as a unit is one element.
Months == {<<"M", "a", "y">>, <<"m", "a", "y">>}
Years == {"2026"}
SavedBys == {<<"a", ".", "b", "@", "x">>, <<"a", "-", "b", "@", "y">>, <<"c", "@", "x">>}

SAVED_ITEMS_BLOB == <<"saved-items/", "global.json">>

\* str.lower()
lower(str) ==
    [i \in 1..Len(str) |-> IF str[i] = "M" THEN "m" ELSE IF str[i] = "A" THEN "a" ELSE str[i]]

\* str.split(sep)[0]: the part before the first sep, the whole string without one.
split_first(str, sep) ==
    IF \E i \in 1..Len(str) : str[i] = sep
    THEN SubSeq(str, 1, (CHOOSE i \in 1..Len(str) :
                            str[i] = sep /\ \A j \in 1..(i - 1) : str[j] # sep) - 1)
    ELSE str

\* str.replace(old, new): every occurrence of one element.
replace_all(str, old, new) ==
    [i \in 1..Len(str) |-> IF str[i] = old THEN new ELSE str[i]]

\* str.replace(old, new, 1): the first occurrence only.
replace_first(str, old, new) ==
    IF \E i \in 1..Len(str) : str[i] = old
    THEN LET first == CHOOSE i \in 1..Len(str) :
                          str[i] = old /\ \A j \in 1..(i - 1) : str[j] # old
         IN  [i \in 1..Len(str) |-> IF i = first THEN new ELSE str[i]]
    ELSE str

\* save_draft: blob_name = f"drafts/{month}-{year}-{saved_by}.json"
draft_blob_name(month, year, savedBy) ==
    <<"drafts/">> \o lower(month) \o <<"-", year, "-">>
        \o replace_all(split_first(savedBy, "@"), ".", "-") \o <<".json">>

\* publish_draft: published_name = filename.replace('drafts/', 'published/', 1)
published_name(filename) == replace_first(filename, "drafts/", "published/")

DraftNames == {draft_blob_name(m, y, e) : m \in Months, y \in Years, e \in SavedBys}

\* The file names a publish_draft request may carry ("" is the missing field).
PublishFiles ==
    DraftNames \cup {published_name(n) : n \in DraftNames} \cup {SAVED_ITEMS_BLOB, <<>>}

\* save_draft: the snapshot built from request number n.  Every field of the
\* draft is taken from the one request (n stands for that request's value).
build_draft(n) == [introText |-> n, subjectLine |-> n]

\* upload_from_string writing field by field, an existing object keeping its
\* subjectLine.
upload_from_string_merge(store, name, content) ==
    [n \in (DOMAIN store) \cup {name} |->
        IF n = name
        THEN (IF name \in DOMAIN store
              THEN [content EXCEPT !.subjectLine = store[name].subjectLine]
              ELSE content)
        ELSE store[n]]

\* blob.upload_from_string: the object is replaced as a whole.
upload_from_string(store, name, content) ==
    [n \in (DOMAIN store) \cup {name} |-> IF n = name THEN content ELSE store[n]]

\* bucket.copy_blob(source_blob, bucket, new_name)
copy_blob(store, source, new_name) == upload_from_string(store, new_name, store[source])

\* blob.delete()
delete_blob(store, name) == [n \in (DOMAIN store) \ {name} |-> store[n]]

\* blob.exists()
blob_exists(store, name) == name \in DOMAIN store

Busy(w) == worker[w].pc \notin {"idle", "done"}

\* Thread w takes up a request.  overlap records, for every request, whether
\* another request was in progress at any time between its start and its end.
Begin(w, rec) ==
    worker' = [v \in Workers |->
                  IF v = w THEN [rec EXCEPT !.overlap = \E u \in Workers \ {w} : Busy(u)]
                  ELSE IF Busy(v) THEN [worker[v] EXCEPT !.overlap = TRUE]
                  ELSE worker[v]]

Finish(w, status, file) ==
    worker' = [worker EXCEPT ![w].pc = "done", ![w].status = status, ![w].file = file]

NoteUpload(name, n) ==
    uploaded' = [k \in (DOMAIN uploaded) \cup {name} |->
                    IF k = name
                    THEN (IF name \in DOMAIN uploaded THEN uploaded[name] ELSE <<>>) \o <<n>>
                    ELSE uploaded[k]]

\* POST /api/save-draft, up to the storage call: the availability test, the
\* blob name and the snapshot.
save_draft_begin(w) ==
    /\ worker[w].pc = "idle"
    /\ nreq < MaxRequests
    /\ nreq' = nreq + 1
    /\ \E month \in Months, year \in Years, savedBy \in SavedBys :
         Begin(w,
            IF ~gcs_client
            THEN [IdleWorker EXCEPT !.op = "save_draft", !.req = nreq + 1,
                                    !.pc = "done", !.status = 503]
            ELSE [IdleWorker EXCEPT !.op = "save_draft", !.req = nreq + 1,
                                    !.pc = "upload",
                                    !.month = month, !.year = year, !.savedBy = savedBy,
                                    !.name = draft_blob_name(month, year, savedBy)])
    /\ UNCHANGED <<blobs, uploaded>>
    /\ UNCHANGED <<cfgVars, gtpVars, apiVars, adapterVars, nlVars, pureVars>>

\* save_draft: blob.upload_from_string and the response; the call may raise.
save_draft_upload(w) ==
    /\ worker[w].op = "save_draft" /\ worker[w].pc = "upload"
    /\ \/ /\ blobs' = upload_from_string(blobs, worker[w].name, build_draft(worker[w].req))
          /\ NoteUpload(worker[w].name, worker[w].req)
          /\ Finish(w, 200, worker[w].name)
       \/ /\ Finish(w, 500, <<>>)
          /\ UNCHANGED <<blobs, uploaded>>
    /\ UNCHANGED nreq
    /\ UNCHANGED <<cfgVars, gtpVars, apiVars, adapterVars, nlVars, pureVars>>

\* POST /api/publish-draft, up to the first storage call.
publish_draft_begin(w) ==
    /\ worker[w].pc = "idle"
    /\ nreq < MaxRequests
    /\ nreq' = nreq + 1
    /\ \E filename \in PublishFiles :
         Begin(w,
            IF ~gcs_client
            THEN [IdleWorker EXCEPT !.op = "publish_draft", !.req = nreq + 1,
                                    !.name = filename, !.pc = "done", !.status = 503]
            ELSE IF filename = <<>>
            THEN [IdleWorker EXCEPT !.op = "publish_draft", !.req = nreq + 1,
                                    !.name = filename, !.pc = "done", !.status = 400]
            ELSE [IdleWorker EXCEPT !.op = "publish_draft", !.req = nreq + 1,
                                    !.name = filename, !.pc = "exists"])
    /\ UNCHANGED <<blobs, uploaded>>
    /\ UNCHANGED <<cfgVars, gtpVars, apiVars, adapterVars, nlVars, pureVars>>

\* publish_draft going on to the copy without the test of source_blob.exists()
publish_draft_exists_unchecked(w) ==
    /\ worker[w].op = "publish_draft" /\ worker[w].pc = "exists"
    /\ \/ worker' = [worker EXCEPT ![w].pc = "copy",
                                   ![w].dest = published_name(worker[w].name)]
       \/ Finish(w, 500, <<>>)
    /\ UNCHANGED <<blobs, nreq, uploaded>>
    /\ UNCHANGED <<cfgVars, gtpVars, apiVars, adapterVars, nlVars, pureVars>>

\* publish_draft: source_blob.exists(), 404 without the blob; the call may raise.
publish_draft_exists(w) ==
    /\ worker[w].op = "publish_draft" /\ worker[w].pc = "exists"
    /\ \/ /\ blob_exists(blobs, worker[w].name)
          /\ worker' = [worker EXCEPT ![w].pc = "copy",
                                      ![w].dest = published_name(worker[w].name)]
       \/ /\ ~blob_exists(blobs, worker[w].name)
          /\ Finish(w, 404, <<>>)
       \/ Finish(w, 500, <<>>)
    /\ UNCHANGED <<blobs, nreq, uploaded>>
    /\ UNCHANGED <<cfgVars, gtpVars, apiVars, adapterVars, nlVars, pureVars>>

\* publish_draft: bucket.copy_blob; it raises when the source is gone or the
\* call fails.
publish_draft_copy(w) ==
    /\ worker[w].op = "publish_draft" /\ worker[w].pc = "copy"
    /\ \/ /\ blob_exists(blobs, worker[w].name)
          /\ blobs' = copy_blob(blobs, worker[w].name, worker[w].dest)
          /\ worker' = [worker EXCEPT ![w].pc = "delete"]
       \/ /\ Finish(w, 500, <<>>)
          /\ UNCHANGED blobs
    /\ UNCHANGED <<nreq, uploaded>>
    /\ UNCHANGED <<cfgVars, gtpVars, apiVars, adapterVars, nlVars, pureVars>>

\* publish_draft: source_blob.delete() and the response; it raises when the
\* source is gone or the call fails.
publish_draft_delete(w) ==
    /\ worker[w].op = "publish_draft" /\ worker[w].pc = "delete"
    /\ \/ /\ blob_exists(blobs, worker[w].name)
          /\ blobs' = delete_blob(blobs, worker[w].name)
          /\ Finish(w, 200, worker[w].dest)
       \/ /\ Finish(w, 500, <<>>)
          /\ UNCHANGED blobs
    /\ UNCHANGED <<nreq, uploaded>>
    /\ UNCHANGED <<cfgVars, gtpVars, apiVars, adapterVars, nlVars, pureVars>>

\* The response has been sent; the thread takes the next request.
request_done(w) ==
    /\ worker[w].pc = "done"
    /\ worker' = [worker EXCEPT ![w] = IdleWorker]
    /\ UNCHANGED <<blobs, nreq, uploaded>>
    /\ UNCHANGED <<cfgVars, gtpVars, apiVars, adapterVars, nlVars, pureVars>>

\* The values of the search variables while no search request is modelled.
GtpIdle ==
    /\ gtp_in = NoInput
    /\ gtp_queries = <<>>
    /\ gtp_resp = NoResp

InitDraft ==
    /\ gcs_client \in BOOLEAN
    /\ youtube_client = TRUE /\ perplexity_client = "ok" /\ claude_client = TRUE
    /\ gemini_client = "ok" /\ sendgrid = "ok"
    /\ channel = DefaultChannel
    /\ DraftsIdle
    /\ GtpIdle /\ ApiIdle /\ AdapterIdle /\ NewsletterIdle
    /\ PureIdle

NextDraft ==
    \E w \in Workers :
        \/ save_draft_begin(w)
        \/ save_draft_upload(w)
        \/ publish_draft_begin(w)
        \/ publish_draft_exists(w)
        \/ publish_draft_copy(w)
        \/ publish_draft_delete(w)
        \/ request_done(w)

SpecDraft == InitDraft /\ [][NextDraft]_vars

(***************************************************************************)
(* Claims about the draft store (checked under SpecDraft)                  *)
(***************************************************************************)
SaveInFlight(name) ==
    \E w \in Workers : worker[w].op = "save_draft" /\ Busy(w) /\ worker[w].name = name

\* C5: once the save_draft requests addressing a key have completed, the blob
\* under that key is the complete snapshot of one request, the one whose
\* upload came last: all its fields are that request's.
C5_LastWriteWins ==
    \A name \in DOMAIN uploaded :
        (~SaveInFlight(name) /\ blob_exists(blobs, name)) =>
            LET last == uploaded[name][Len(uploaded[name])]
            IN  /\ blobs[name].introText = last
                /\ blobs[name].subjectLine = last

\* Two overlapping saves to one key have both succeeded; the request received
\* first uploaded last and its snapshot is the one stored.
C5_Witness ==
    \E name \in DOMAIN uploaded :
        /\ uploaded[name] = <<2, 1>>
        /\ \A w \in Workers :
              /\ worker[w].op = "save_draft" /\ worker[w].pc = "done"
              /\ worker[w].status = 200 /\ worker[w].name = name /\ worker[w].overlap
        /\ blobs[name] = [introText |-> 1, subjectLine |-> 1]

\* Thread w has answered a publish_draft that no other request overlapped, and
\* no request has been received since.
PublishedAlone(w) ==
    /\ worker[w].op = "publish_draft" /\ worker[w].pc = "done"
    /\ worker[w].status = 200
    /\ ~worker[w].overlap
    /\ worker[w].req = nreq
    /\ \A u \in Workers \ {w} : ~Busy(u)

\* C6: when publish_draft of an existing blob returns success, the content is
\* stored under the returned file name and no blob remains under the name
\* that was passed in.
C6_PublishIsMove ==
    \A w \in Workers :
        PublishedAlone(w) =>
            /\ blob_exists(blobs, worker[w].file)
            /\ (worker[w].file # worker[w].name => ~blob_exists(blobs, worker[w].name))

(***************************************************************************)
(* Guess-the-Price search                                                  *)
(***************************************************************************)
Urls == {"", "u1", "u2"}
OriginalQuery == "q"
ExpandedPool == <<"e1", "e2", "e3", "e4", "e5", "e6">>

\* What one call of PerplexityClient.search meets at the provider.
SearchFailures == {"timeout", "request_error", "non200", "malformed"}
SearchOutcomes ==
    {[kind |-> f, urls |-> <<>>] : f \in SearchFailures}
    \cup {[kind |-> "ok", urls |-> us] : us \in SeqsUpTo(Urls, MaxResults)}

\* What the expansion call (generate_content + parse_json_from_llm) produces.
ExpansionOutcomes ==
    {[kind |-> k, items |-> <<>>] : k \in {"raise", "unparseable", "empty", "object"}}
    \cup {[kind |-> "list", items |-> SubSeq(ExpandedPool, 1, n)] : n \in 0..MaxExpand}

\* PerplexityClient.is_available on the module-level client.
perplexity_available == perplexity_client = "ok"

\* PerplexityClient.search: every failure is caught and yields the empty list;
\* a 200 answer yields the parsed records.  qi stands for the fields of a
\* record other than its url (records of different queries differ).
search(qi, outcome) ==
    IF outcome.kind \in SearchFailures
    THEN <<>>
    ELSE [k \in 1..Len(outcome.urls) |-> [url |-> outcome.urls[k], query |-> qi]]

\* expand_queries with the fallback lost on a failed expansion.
expand_queries_nofallback(query, exp) ==
    IF ~claude_client THEN <<query>>
    ELSE IF exp.kind = "list" THEN SubSeq(exp.items, 1, Min(3, Len(exp.items)))
    ELSE <<>>

\* expand_queries without the [:3] slice.
expand_queries_noslice(query, exp) ==
    IF ~claude_client THEN <<query>>
    ELSE IF exp.kind = "list" /\ Len(exp.items) >= 2 THEN exp.items
    ELSE <<query>>

\* gtp_search, step 1 (app.py:527-554): the queries to run.
expand_queries(query, exp) ==
    IF ~claude_client THEN <<query>>
    ELSE IF exp.kind = "list" /\ Len(exp.items) >= 2
         THEN SubSeq(exp.items, 1, Min(3, Len(exp.items)))
         ELSE <<query>>

\* dedup_results without the seen_urls test.
RECURSIVE dedup_results_keepall(_, _, _)
dedup_results_keepall(acc, results, k) ==
    IF k > Len(results) THEN acc
    ELSE dedup_results_keepall(
             IF results[k].url # ""
             THEN [all_results |-> Append(acc.all_results, results[k]),
                   seen_urls |-> acc.seen_urls \cup {results[k].url}]
             ELSE acc,
             results, k + 1)

\* gtp_search, the inner loop "for r in results".
RECURSIVE dedup_results(_, _, _)
dedup_results(acc, results, k) ==
    IF k > Len(results) THEN acc
    ELSE LET r == results[k]
             url == r.url
         IN  dedup_results(
                 IF url # "" /\ url \notin acc.seen_urls
                 THEN [all_results |-> Append(acc.all_results, r),
                       seen_urls |-> acc.seen_urls \cup {url}]
                 ELSE acc,
                 results, k + 1)

\* gtp_search, the outer loop "for sq in search_queries".
RECURSIVE search_loop(_, _, _)
search_loop(acc, outcomes, i) ==
    IF i > Len(outcomes) THEN acc
    ELSE search_loop(dedup_results(acc, search(i, outcomes[i]), 1), outcomes, i + 1)

\* gtp_response without the per-query try: a failed search aborts the request.
gtp_response_abort(body, outcomes) ==
    IF body = "invalid" \/ \E i \in DOMAIN outcomes : outcomes[i].kind \in SearchFailures
    THEN [status |-> 500, success |-> FALSE, error |-> "exception", results |-> <<>>]
    ELSE IF ~perplexity_available
    THEN [status |-> 503, success |-> FALSE, error |-> "Perplexity API not configured",
          results |-> <<>>]
    ELSE [status |-> 200, success |-> TRUE, error |-> "",
          results |-> search_loop([all_results |-> <<>>, seen_urls |-> {}],
                                  outcomes, 1).all_results]

\* The response of gtp_search.
gtp_response(body, outcomes) ==
    IF body = "invalid"
    THEN [status |-> 500, success |-> FALSE, error |-> "exception", results |-> <<>>]
    ELSE IF ~perplexity_available
    THEN [status |-> 503, success |-> FALSE, error |-> "Perplexity API not configured",
          results |-> <<>>]
    ELSE [status |-> 200, success |-> TRUE, error |-> "",
          results |-> search_loop([all_results |-> <<>>, seen_urls |-> {}],
                                  outcomes, 1).all_results]

\* POST /api/guess-the-price/search
gtp_search ==
    /\ gtp_resp = NoResp
    /\ \E body \in {"json", "invalid"}, exp \in ExpansionOutcomes :
         LET reached == body = "json" /\ perplexity_available
             queries == IF reached THEN expand_queries(OriginalQuery, exp) ELSE <<>>
         IN  \E outcomes \in [1..Len(queries) -> SearchOutcomes] :
               /\ gtp_in' = [body |-> body,
                             exp |-> IF reached /\ claude_client THEN exp
                                     ELSE [kind |-> "skipped", items |-> <<>>],
                             outcomes |-> outcomes]
               /\ gtp_queries' = queries
               /\ gtp_resp' = gtp_response(body, outcomes)
    /\ UNCHANGED <<cfgVars, draftVars, apiVars, adapterVars, nlVars, pureVars>>

\* The next request arrives.
GtpNextRequest ==
    /\ gtp_resp # NoResp
    /\ gtp_in' = NoInput
    /\ gtp_queries' = <<>>
    /\ gtp_resp' = NoResp
    /\ UNCHANGED <<cfgVars, draftVars, apiVars, adapterVars, nlVars, pureVars>>

InitGtp ==
    /\ perplexity_client \in {"None", "nokey", "ok"}
    /\ claude_client \in BOOLEAN
    /\ youtube_client = TRUE /\ gemini_client = "ok" /\ gcs_client = TRUE /\ sendgrid = "ok"
    /\ channel = DefaultChannel
    /\ GtpIdle
    /\ DraftsIdle /\ ApiIdle /\ AdapterIdle /\ NewsletterIdle
    /\ PureIdle

NextGtp == gtp_search \/ GtpNextRequest

SpecGtp == InitGtp /\ [][NextGtp]_vars

(***************************************************************************)
(* Claims about gtp_search (checked under SpecGtp)                         *)
(***************************************************************************)
\* The result lists the search calls returned, concatenated in execution order.
RECURSIVE ReturnedInOrder(_, _)
ReturnedInOrder(outcomes, i) ==
    IF i > Len(outcomes) THEN <<>>
    ELSE search(i, outcomes[i]) \o ReturnedInOrder(outcomes, i + 1)

GtpSearched == gtp_in.body = "json" /\ perplexity_available

\* C1: the merged results hold every distinct non-empty URL the searches
\* returned exactly once, hold nothing else, and are ordered by first
\* appearance (queries in execution order, each query's results as returned);
\* the record kept for a URL is the first one seen.
C1_MergedOnceFirstSeen ==
    gtp_resp.status = 200 =>
        LET flat == ReturnedInOrder(gtp_in.outcomes, 1)
            res == gtp_resp.results
            FirstPos(u) == CHOOSE k \in 1..Len(flat) :
                               flat[k].url = u /\ \A j \in 1..(k - 1) : flat[j].url # u
        IN  /\ \A k \in 1..Len(flat) :
                  flat[k].url # "" =>
                      Cardinality({i \in 1..Len(res) : res[i].url = flat[k].url}) = 1
            /\ \A i \in 1..Len(res) :
                  /\ res[i].url # ""
                  /\ \E k \in 1..Len(flat) : flat[k].url = res[i].url
                  /\ res[i] = flat[FirstPos(res[i].url)]
            /\ \A i, j \in 1..Len(res) :
                  i < j => FirstPos(res[i].url) < FirstPos(res[j].url)

\* Two different queries returned the same non-empty URL, and another URL too.
C1_Witness ==
    /\ gtp_resp.status = 200
    /\ Len(gtp_resp.results) >= 2
    /\ \E i, j \in DOMAIN gtp_in.outcomes :
          /\ i < j
          /\ \E a \in 1..Len(gtp_in.outcomes[i].urls), b \in 1..Len(gtp_in.outcomes[j].urls) :
                /\ gtp_in.outcomes[i].urls[a] # ""
                /\ gtp_in.outcomes[i].urls[a] = gtp_in.outcomes[j].urls[b]

\* C2: with the search provider configured, a failed search call is skipped:
\* the response is success=true and carries the results of every query that
\* did not fail, and nothing else; 503 is answered exactly when the provider
\* is not available.
C2_FailedQuerySkipped ==
    /\ GtpSearched =>
          /\ gtp_resp.status = 200 /\ gtp_resp.success
          /\ \A i \in DOMAIN gtp_in.outcomes :
                gtp_in.outcomes[i].kind = "ok" =>
                    \A k \in 1..Len(gtp_in.outcomes[i].urls) :
                        gtp_in.outcomes[i].urls[k] # "" =>
                            \E n \in 1..Len(gtp_resp.results) :
                                gtp_resp.results[n].url = gtp_in.outcomes[i].urls[k]
          /\ \A n \in 1..Len(gtp_resp.results) :
                gtp_in.outcomes[gtp_resp.results[n].query].kind = "ok"
    /\ gtp_resp.status = 503 <=> (gtp_in.body = "json" /\ ~perplexity_available)

\* One query failed, another one produced results, and they were returned.
C2_Witness ==
    /\ gtp_resp.status = 200
    /\ Len(gtp_resp.results) >= 1
    /\ \E i, j \in DOMAIN gtp_in.outcomes :
          /\ i < j
          /\ gtp_in.outcomes[i].kind \in SearchFailures
          /\ gtp_in.outcomes[j].kind = "ok"
          /\ gtp_resp.results[1].query = j

\* The expansion did not yield a usable list, the threshold being n elements.
ExpansionFellShort(n) ==
    \/ ~claude_client
    \/ gtp_in.exp.kind \in {"raise", "unparseable", "empty", "object"}
    \/ gtp_in.exp.kind = "list" /\ Len(gtp_in.exp.items) < n

\* C3 as stated: whatever the expansion does the search step is reached, and
\* after a failed expansion (client missing, call raising, unparseable output,
\* not a list, or a list shorter than the three queries asked for) exactly
\* the original query is searched.
C3_Original ==
    GtpSearched =>
        /\ gtp_resp.status = 200 /\ Len(gtp_queries) >= 1
        /\ ExpansionFellShort(3) => gtp_queries = <<OriginalQuery>>

\* C3 amended: the same, a list being too short when it has fewer than two
\* elements.
C3_ExpansionNeverAborts ==
    GtpSearched =>
        /\ gtp_resp.status = 200 /\ Len(gtp_queries) >= 1
        /\ ExpansionFellShort(2) => gtp_queries = <<OriginalQuery>>

\* The expansion output could not be parsed and the original query was searched.
C3_Witness ==
    /\ gtp_resp.status = 200
    /\ gtp_in.exp.kind = "unparseable"
    /\ gtp_queries = <<OriginalQuery>>
    /\ Len(gtp_resp.results) >= 1

\* C4 as stated: 1 query (the original) or 3 queries (the expanded ones) are
\* sent; an expansion of any other length is replaced by the original query.
C4_Original ==
    gtp_resp.status = 200 =>
        /\ Len(gtp_queries) \in {1, 3}
        /\ (gtp_in.exp.kind = "list" /\ Len(gtp_in.exp.items) # 3)
               => gtp_queries = <<OriginalQuery>>

\* C4 amended: 1, 2 or 3 queries are sent; an expansion of two or more
\* elements contributes its first three (two when it has two), and any
\* expansion of fewer than two elements is replaced by the original query.
C4_OneToThreeQueries ==
    gtp_resp.status = 200 =>
        /\ Len(gtp_queries) \in {1, 2, 3}
        /\ Len(gtp_queries) = 1 => gtp_queries = <<OriginalQuery>>
        /\ Len(gtp_queries) > 1 =>
              /\ gtp_in.exp.kind = "list"
              /\ Len(gtp_queries) = Min(3, Len(gtp_in.exp.items))
              /\ \A i \in 1..Len(gtp_queries) : gtp_queries[i] = gtp_in.exp.items[i]
        /\ (gtp_in.exp.kind = "list" /\ Len(gtp_in.exp.items) < 2)
               => gtp_queries = <<OriginalQuery>>

\* A two-element expansion was searched as two queries.
C4_Witness ==
    /\ gtp_resp.status = 200
    /\ gtp_in.exp.kind = "list" /\ Len(gtp_in.exp.items) = 2
    /\ gtp_queries = gtp_in.exp.items

(***************************************************************************)
(* The provider adapters of backend/integrations                           *)
(***************************************************************************)
\* What one HTTP request to a provider comes to: requests raises Timeout,
\* requests raises another RequestException, the status is not 200, the body
\* is not the JSON the adapter reads, the body lists nothing, the body lists
\* items.
ProviderOutcomes == {"timeout", "network_error", "non200", "malformed", "empty", "ok"}

\* What a method gives back to its caller: a list, None, or an exception.
\* requests counts the HTTP requests the method issued on the way.
Value(items) ==
    [kind |-> "value", items |-> items, next_page_token |-> NoToken, requests |-> 0]
None == [kind |-> "none", items |-> <<>>, next_page_token |-> NoToken, requests |-> 0]
Raised == [kind |-> "raised", items |-> <<>>, next_page_token |-> NoToken, requests |-> 0]
\* {"videos": videos, "next_page_token": token}
Page(videos, token) ==
    [kind |-> "value", items |-> videos, next_page_token |-> token, requests |-> 0]
After(requests, result) == [result EXCEPT !.requests = requests]

\* The videos of the channel as the provider lists them, newest first.
ChannelVideos == channel
ViewCounts == {5, 7, 9}
Channels == {[i \in 1..3 |-> [video_id |-> DefaultChannel[i].video_id, view_count |-> c[i]]] :
                c \in [1..3 -> ViewCounts]}

\* The search request also answers with items and a nextPageToken.
ListOutcomes == ProviderOutcomes \cup {"ok_more"}
\* The provider's token for the page that starts at the second video.
NextToken == <<"page2">>
PageTokens == {NoToken, NextToken}

in_channel(video_id) == \E i \in 1..Len(ChannelVideos) : ChannelVideos[i].video_id = video_id
video_of(video_id) ==
    CHOOSE v \in {ChannelVideos[i] : i \in 1..Len(ChannelVideos)} : v.video_id = video_id

\* A URL handed to get_video_by_url, as urlparse takes it apart: the scheme
\* ("" when the string has none), the host, the path up to the identifier,
\* the path segment that follows, and the value of the query parameter v
\* (Absent when the query has none).  <<>> is the empty string.
Https == "https://"
Absent == "absent"
BadHost == "[bad"
Url(scheme, netloc, path, segment, v) == <<scheme, netloc, path, segment, v>>
VideoIds == {"v1", "v2"}

\* The URLs of a video in the shapes the adapter documents, on the hosts it lists
UrlShapes(v) ==
    {Url(Https, "www.youtube.com", "/watch", "", v),
     Url(Https, "youtu.be", "/", v, Absent),
     Url(Https, "youtube.com", "/shorts/", v, Absent),
     Url(Https, "www.youtube.com", "/embed/", v, Absent),
     Url(Https, "m.youtube.com", "/watch", "", v),
     Url(Https, "www.youtu.be", "/", v, Absent)}

\* Other strings: another host, another path, a watch URL without v or with
\* a blank v, a missing identifier, a string without scheme, and one
\* urlparse raises ValueError on.
OtherUrls ==
    {Url(Https, "example.com", "/watch", "", "v1"),
     Url(Https, "music.youtube.com", "/watch", "", "v1"),
     Url(Https, "www.youtube.com", "/playlist", "", Absent),
     Url(Https, "www.youtube.com", "/watch", "", Absent),
     Url(Https, "www.youtube.com", "/watch", "", ""),
     Url(Https, "youtu.be", "/", "", Absent),
     Url(Https, "www.youtube.com", "/shorts/", "", Absent),
     Url(Https, "www.youtube.com", "/embed/", "", Absent),
     Url("", "www.youtube.com", "/watch", "", "v1"),
     Url("", "youtu.be", "/", "v1", Absent),
     Url(Https, BadHost, "/watch", "", "v1")}

VideoUrls == {<<>>} \cup UNION {UrlShapes(v) : v \in VideoIds} \cup OtherUrls

\* A python string as an identifier: None and "" are both falsy, <<>> here.
Ident(s) == IF s \in {"", Absent} THEN <<>> ELSE <<s>>

\* path.lstrip("/").split("/")[0]
first_segment(path, segment) ==
    IF path = "/" THEN segment
    ELSE IF path = "/watch" THEN "watch"
    ELSE IF path = "/shorts/" THEN "shorts"
    ELSE IF path = "/embed/" THEN "embed"
    ELSE "playlist"

\* _extract_video_id without its /embed/ branch
extract_video_id_no_embed(url) ==
    IF url = <<>> THEN <<>>
    ELSE LET scheme == url[1]
             netloc == IF scheme = "" THEN "" ELSE url[2]
             path == url[3]
             segment == url[4]
             v == url[5]
         IN  IF url[2] = BadHost /\ scheme # "" THEN <<>>
             ELSE IF netloc \in {"youtu.be", "www.youtu.be"}
                  THEN Ident(first_segment(path, segment))
             ELSE IF netloc \in {"youtube.com", "www.youtube.com", "m.youtube.com"}
                  THEN IF path = "/watch" /\ segment = "" THEN Ident(v)
                       ELSE IF path = "/shorts/" THEN Ident(segment)
                       ELSE <<>>
             ELSE <<>>

\* YouTubeClient._extract_video_id: the id, or <<>> for None and for the
\* empty id.  Without a scheme urlparse finds no host; parse_qs drops a
\* blank v; a ValueError of urlparse is caught.
extract_video_id(url) ==
    IF url = <<>> THEN <<>>
    ELSE LET scheme == url[1]
             netloc == IF scheme = "" THEN "" ELSE url[2]
             path == url[3]
             segment == url[4]
             v == url[5]
         IN  IF url[2] = BadHost /\ scheme # "" THEN <<>>
             ELSE IF netloc \in {"youtu.be", "www.youtu.be"}
                  THEN Ident(first_segment(path, segment))
             ELSE IF netloc \in {"youtube.com", "www.youtube.com", "m.youtube.com"}
                  THEN IF path = "/watch" /\ segment = "" THEN Ident(v)
                       ELSE IF path = "/shorts/" THEN Ident(segment)
                       ELSE IF path = "/embed/" THEN Ident(segment)
                       ELSE <<>>
             ELSE <<>>

\* YouTubeClient._get_video_details: no try; requests.get raises on a timeout
\* or a network error, response.json(), int() and item["id"] raise on a body
\* of another shape.
get_video_details(video_ids, o) ==
    IF video_ids = <<>> THEN Value(<<>>)
    ELSE IF o \in {"timeout", "network_error"} THEN After(1, Raised)
    ELSE IF o = "non200" THEN After(1, Value(<<>>))
    ELSE IF o = "malformed" THEN After(1, Raised)
    ELSE IF o = "empty" THEN After(1, Value(<<>>))
    ELSE LET known == SelectSeq(video_ids, in_channel)
         IN  After(1, Value([i \in 1..Len(known) |-> video_of(known[i])]))

\* YouTubeClient.get_channel_videos: the search request, then the details
\* request, all inside one try whose handlers return the empty result.
get_channel_videos(max_results, page_token, o1, o2) ==
    IF ~youtube_client THEN Page(<<>>, NoToken)
    ELSE IF o1 \in {"timeout", "network_error", "non200", "malformed", "empty"}
         THEN After(1, Page(<<>>, NoToken))
    ELSE LET listed == IF page_token = NoToken THEN ChannelVideos ELSE Tail(ChannelVideos)
             ids == [i \in 1..Min(Min(max_results, 50), Len(listed)) |-> listed[i].video_id]
             next_page_token == IF o1 = "ok_more" THEN NextToken ELSE NoToken
             details == get_video_details(ids, o2)
         IN  IF ids = <<>> THEN After(1, Page(<<>>, NoToken))
             ELSE IF details.kind = "raised" THEN After(2, Page(<<>>, NoToken))
             ELSE After(2, Page(details.items, next_page_token))

\* list.sort(key=view_count, reverse=True): stable, by insertion.
RECURSIVE sort_by_views(_)
insert_by_views(v, sorted) ==
    LET before == {i \in 1..Len(sorted) : sorted[i].view_count >= v.view_count}
        n == Cardinality(before)
    IN  SubSeq(sorted, 1, n) \o <<v>> \o SubSeq(sorted, n + 1, Len(sorted))
sort_by_views(videos) ==
    IF videos = <<>> THEN <<>>
    ELSE insert_by_views(videos[Len(videos)],
                         sort_by_views(SubSeq(videos, 1, Len(videos) - 1)))

\* get_videos_by_popularity without its sort: the pool in the provider's order
get_videos_by_popularity_unsorted(max_results, o1, o2) ==
    LET result == get_channel_videos(Min(max_results * 2, 50), NoToken, o1, o2)
        videos == result.items
    IN  After(result.requests,
              Page(SubSeq(videos, 1, Min(max_results, Len(videos))), result.next_page_token))

\* YouTubeClient.get_videos_by_popularity
get_videos_by_popularity(max_results, o1, o2) ==
    LET result == get_channel_videos(Min(max_results * 2, 50), NoToken, o1, o2)
        videos == sort_by_views(result.items)
    IN  After(result.requests,
              Page(SubSeq(videos, 1, Min(max_results, Len(videos))), result.next_page_token))

\* YouTubeClient.get_videos_sorted
get_videos_sorted(sort, max_results, page_token, o1, o2) ==
    IF sort = "popular"
    THEN get_videos_by_popularity(max_results, o1, o2)
    ELSE LET result == get_channel_videos(max_results, page_token, o1, o2)
             videos == result.items
         IN  After(result.requests,
                   Page(SubSeq(videos, 1, Min(max_results, Len(videos))),
                        result.next_page_token))

\* get_video_by_url without its test of the extracted id
get_video_by_url_unguarded(url, o) ==
    LET video_id == extract_video_id(url)
        videos == get_video_details(IF video_id = <<>> THEN <<"">> ELSE video_id, o)
    IN  IF videos.kind = "raised" THEN After(videos.requests, Raised)
        ELSE IF videos.items = <<>> THEN After(videos.requests, None)
        ELSE After(videos.requests, Value(<<videos.items[1]>>))

\* YouTubeClient.get_video_by_url: the details request is made outside any try.
get_video_by_url(url, o) ==
    LET video_id == extract_video_id(url)
    IN  IF video_id = <<>> THEN None
        ELSE LET videos == get_video_details(video_id, o)
             IN  IF videos.kind = "raised" THEN After(videos.requests, Raised)
                 ELSE IF videos.items = <<>> THEN After(videos.requests, None)
                 ELSE After(videos.requests, Value(<<videos.items[1]>>))

BlogPosts == <<"p1", "p2">>
BlogCategories == <<"c1">>

\* BlogScraper._get_category_id: any failure is swallowed and gives None.
get_category_id(o) == IF o = "ok" THEN <<"c1">> ELSE <<>>

\* BlogScraper.get_recent_posts: the whole body is one try whose handlers
\* return the empty list; a category is first resolved by a request of its own.
get_recent_posts(count, category, oc, o) ==
    LET cat_id == IF category THEN get_category_id(oc) ELSE <<>>
        requests == IF category THEN 2 ELSE 1
    IN  IF o \in {"timeout", "network_error", "non200", "malformed", "empty"}
        THEN After(requests, Value(<<>>))
        ELSE After(requests, Value(SubSeq(BlogPosts, 1, Min(count, Len(BlogPosts)))))

\* BlogScraper.get_categories
get_categories(o) ==
    IF o = "ok" THEN After(1, Value(BlogCategories)) ELSE After(1, Value(<<>>))

\* PerplexityClient.search as its caller sees it, the key check included.
perplexity_search(outcome) ==
    IF ~perplexity_available THEN Value(<<>>) ELSE After(1, Value(search(1, outcome)))

Called(call, result) ==
    /\ adapter_result = NoResult
    /\ adapter_call' = call
    /\ adapter_result' = result
    /\ UNCHANGED <<cfgVars, gtpVars, draftVars, apiVars, nlVars, pureVars>>

call_get_channel_videos ==
    \E n \in 1..MaxVideos, page_token \in PageTokens,
       o1 \in ListOutcomes, o2 \in ProviderOutcomes :
        Called([NoCall EXCEPT !.method = "get_channel_videos", !.n = n,
                              !.page_token = page_token, !.outcomes = <<o1, o2>>],
               get_channel_videos(n, page_token, o1, o2))

call_get_videos_by_popularity ==
    \E n \in 0..MaxVideos, o1 \in ListOutcomes, o2 \in ProviderOutcomes :
        Called([NoCall EXCEPT !.method = "get_videos_by_popularity", !.n = n,
                              !.outcomes = <<o1, o2>>],
               get_videos_by_popularity(n, o1, o2))

call_get_videos_sorted ==
    \E sort \in {"recent", "popular"}, n \in 1..MaxVideos, page_token \in PageTokens,
       o1 \in ListOutcomes, o2 \in ProviderOutcomes :
        Called([NoCall EXCEPT !.method = "get_videos_sorted", !.sort = sort, !.n = n,
                              !.page_token = page_token, !.outcomes = <<o1, o2>>],
               get_videos_sorted(sort, n, page_token, o1, o2))

call_get_video_by_url ==
    \E url \in VideoUrls, o \in ProviderOutcomes :
        Called([NoCall EXCEPT !.method = "get_video_by_url", !.url = url,
                              !.outcomes = <<o>>],
               get_video_by_url(url, o))

call_get_recent_posts ==
    \E n \in 1..MaxVideos, category \in BOOLEAN,
       oc \in ProviderOutcomes, o \in ProviderOutcomes :
        Called([NoCall EXCEPT !.method = "get_recent_posts", !.n = n,
                              !.category = category, !.outcomes = <<oc, o>>],
               get_recent_posts(n, category, oc, o))

call_get_categories ==
    \E o \in ProviderOutcomes :
        Called([NoCall EXCEPT !.method = "get_categories", !.outcomes = <<o>>],
               get_categories(o))

\* search is a method of the client object: without the object there is no call.
call_search ==
    /\ perplexity_client # "None"
    /\ \E o \in SearchOutcomes :
        Called([NoCall EXCEPT !.method = "search", !.searched = o],
               perplexity_search(o))

adapter_return ==
    /\ adapter_result # NoResult
    /\ adapter_call' = NoCall
    /\ adapter_result' = NoResult
    /\ UNCHANGED <<cfgVars, gtpVars, draftVars, apiVars, nlVars, pureVars>>

InitAdapter ==
    /\ youtube_client \in BOOLEAN
    /\ perplexity_client \in {"None", "nokey", "ok"}
    /\ claude_client = TRUE /\ gemini_client = "ok" /\ gcs_client = TRUE /\ sendgrid = "ok"
    /\ channel \in Channels
    /\ AdapterIdle
    /\ GtpIdle /\ DraftsIdle /\ ApiIdle /\ NewsletterIdle
    /\ PureIdle

NextAdapter ==
    \/ call_get_channel_videos
    \/ call_get_videos_by_popularity
    \/ call_get_videos_sorted
    \/ call_get_video_by_url
    \/ call_get_recent_posts
    \/ call_get_categories
    \/ call_search
    \/ adapter_return

SpecAdapter == InitAdapter /\ [][NextAdapter]_vars

(***************************************************************************)
(* Claims about the provider adapters                                      *)
(***************************************************************************)
\* C8: every public method of a provider adapter returns a value (an empty
\* result or None on failure) for every provider outcome; none raises to its
\* caller.
C8_AdaptersNeverRaise ==
    adapter_result # NoResult => adapter_result.kind \in {"value", "none"}

(***************************************************************************)
(* The /api entry points of app.py                                         *)
(***************************************************************************)
\* A request body: request.json is None or an argument has the wrong type
\* ("invalid"), a field the handler insists on is absent or empty
\* ("missing"), or every field the handler reads is there ("json").
Bodies == {"invalid", "missing", "json"}

\* What one call of the text-generation client comes to: text that parses,
\* an exception, text that parse_json_from_llm cannot parse.
TextOutcomes == {"ok", "raise", "unparseable"}
\* What one call of the image-generation client comes to: image data that
\* PIL resizes, image data that b64decode or Image.open raises on, image data
\* that ImageOps.fit or save raises on, no image data, an exception.
ResizeFailures == {"undecodable", "unprocessable"}
ImageOutcomes == {"ok", "noimage", "raise"} \cup ResizeFailures
\* What one call of the storage client comes to.
StorageOutcomes == {"ok", "raise"}
\* What sg.send comes to for one recipient: accepted, another status, an exception.
SendOutcomes == {"202", "non2xx", "raise"}

\* jsonify(...), status: the status code, the success flag, whether the body
\* has an 'error' string, and what else the body and the handler's work hold.
Resp(status, success, error, calls) ==
    [status |-> status, success |-> success, error |-> error, calls |-> calls,
     attempted |-> <<>>, sent |-> <<>>, errors |-> <<>>, next_page_token |-> NoToken,
     images |-> <<>>]

gemini_available == gemini_client = "ok"

\* get_youtube_videos
get_youtube_videos(body, sort, page_token, o1, o2) ==
    IF body = "invalid" THEN Resp(500, FALSE, TRUE, 0)
    ELSE IF ~youtube_client THEN Resp(503, FALSE, TRUE, 0)
    ELSE LET result == get_videos_sorted(sort, MaxVideos, page_token, o1, o2)
         IN  IF result.kind = "raised" THEN Resp(500, FALSE, TRUE, 1)
             ELSE [Resp(200, TRUE, FALSE, 1) EXCEPT
                      !.next_page_token = result.next_page_token]

\* get_youtube_video_by_url
get_youtube_video_by_url(body, url, o) ==
    IF body = "invalid" THEN Resp(500, FALSE, TRUE, 0)
    ELSE IF body = "missing" \/ url = <<>> THEN Resp(400, FALSE, TRUE, 0)
    ELSE IF ~youtube_client THEN Resp(503, FALSE, TRUE, 0)
    ELSE LET video == get_video_by_url(url, o)
         IN  IF video.kind = "raised" THEN Resp(500, FALSE, TRUE, 1)
             ELSE IF video.kind = "value" THEN Resp(200, TRUE, FALSE, 1)
             ELSE Resp(404, FALSE, TRUE, 1)

\* search_perplexity
search_perplexity(body, o) ==
    IF body = "invalid" THEN Resp(500, FALSE, TRUE, 0)
    ELSE IF body = "missing" THEN Resp(400, FALSE, TRUE, 0)
    ELSE IF ~perplexity_available THEN Resp(503, FALSE, TRUE, 0)
    ELSE LET results == perplexity_search(o)
         IN  IF results.kind = "raised" THEN Resp(500, FALSE, TRUE, 1)
             ELSE Resp(200, TRUE, FALSE, 1)

\* gtp_generate_details
gtp_generate_details(body, o) ==
    IF body = "invalid" THEN Resp(500, FALSE, TRUE, 0)
    ELSE IF ~claude_client THEN Resp(503, FALSE, TRUE, 0)
    ELSE IF o = "ok" THEN Resp(200, TRUE, FALSE, 1)
    ELSE Resp(500, FALSE, TRUE, 1)

\* generate_subject_lines: claude_client is used unchecked; on None the
\* attribute access raises before any call and the outer except answers.
generate_subject_lines(body, o) ==
    IF body = "invalid" THEN Resp(500, FALSE, TRUE, 0)
    ELSE IF ~claude_client THEN Resp(500, FALSE, TRUE, 0)
    ELSE IF o = "ok" THEN Resp(200, TRUE, FALSE, 1)
    ELSE Resp(500, FALSE, TRUE, 1)

\* The base64 data of a generated image, and of the image resize_image made of it
ImageData == <<"image_data">>
Resized(base64_data) == <<"resized">> \o base64_data
DataUrl(image_data) ==
    IF image_data # <<>> THEN <<"data:image/png;base64,">> \o image_data ELSE <<>>

\* resize_image without its try
resize_image_raising(base64_data, o) ==
    IF o = "ok" THEN [kind |-> "value", data |-> Resized(base64_data)]
    ELSE [kind |-> "raised", data |-> <<>>]

\* resize_image: any exception of the decoding, the resizing or the saving
\* is caught and the argument returned.
resize_image(base64_data, o) ==
    IF o = "ok" THEN [kind |-> "value", data |-> Resized(base64_data)]
    ELSE [kind |-> "value", data |-> base64_data]

\* One pass of "for section, prompt_data in prompts.items()": the entry of
\* images the section gets.
generate_image(o) ==
    LET image_data == IF o = "noimage" THEN <<>> ELSE ImageData
        resized == IF image_data # <<>> THEN resize_image(image_data, o)
                   ELSE [kind |-> "value", data |-> image_data]
    IN  IF o = "raise" \/ resized.kind = "raised"
        THEN [url |-> <<>>, error |-> TRUE]
        ELSE [url |-> DataUrl(resized.data), error |-> FALSE]

\* generate_images: one call per prompt, each in a try of its own.
generate_images(body, outcomes) ==
    IF body = "invalid" THEN Resp(500, FALSE, TRUE, 0)
    ELSE IF ~gemini_available THEN Resp(500, FALSE, TRUE, 0)
    ELSE [Resp(200, TRUE, FALSE, Len(outcomes)) EXCEPT
             !.images = [i \in 1..Len(outcomes) |-> generate_image(outcomes[i])]]

\* The recipients of a request are numbered in the order of the list.
sent_to(outcomes) ==
    SelectSeq([i \in 1..Len(outcomes) |-> i], LAMBDA i : outcomes[i] = "202")
failed_for(outcomes) ==
    SelectSeq([i \in 1..Len(outcomes) |-> i], LAMBDA i : outcomes[i] # "202")

\* One pass of "for recipient in recipients": sg.send inside a try of its
\* own.  A 2xx status counts the recipient as sent; another status and an
\* exception count it as failed, and the loop goes on.
send_one(acc, i, outcome) ==
    [attempted |-> Append(acc.attempted, i),
     sent |-> IF outcome = "202" THEN Append(acc.sent, i) ELSE acc.sent,
     failed |-> IF outcome = "202" THEN acc.failed ELSE Append(acc.failed, i)]

\* The loop with the try taken away: it ends at the first send that raises.
send_loop_abort(acc, outcomes, i) ==
    LET raising == {k \in 1..Len(outcomes) : outcomes[k] = "raise"}
        stop == IF raising = {} THEN Len(outcomes)
                ELSE CHOOSE k \in raising : \A j \in raising : k <= j
        tried == SubSeq(outcomes, 1, stop)
    IN  [attempted |-> [j \in 1..stop |-> j], sent |-> sent_to(tried),
         failed |-> failed_for(tried)]

RECURSIVE send_loop(_, _, _)
send_loop(acc, outcomes, i) ==
    IF i > Len(outcomes) THEN acc
    ELSE send_loop(send_one(acc, i, outcomes[i]), outcomes, i + 1)

send_all(outcomes) ==
    send_loop([attempted |-> <<>>, sent |-> <<>>, failed |-> <<>>], outcomes, 1)

\* send_preview: the body of the answer after the loop has 'success',
\* 'message' and 'errors', and no 'error'.
send_preview(body, outcomes) ==
    IF body = "invalid" THEN Resp(500, FALSE, TRUE, 0)
    ELSE IF body = "missing" \/ outcomes = <<>> THEN Resp(400, FALSE, TRUE, 0)
    ELSE IF sendgrid = "nolib" THEN Resp(500, FALSE, TRUE, 0)
    ELSE IF sendgrid = "nokey" THEN Resp(500, FALSE, TRUE, 0)
    ELSE LET done == send_all(outcomes)
         IN  [status |-> 200, success |-> Len(done.sent) > 0, error |-> FALSE,
              calls |-> Len(done.attempted), attempted |-> done.attempted,
              sent |-> done.sent, errors |-> done.failed]

\* send_doc_notification: the body of the answer after the loop has
\* 'success' and 'emails_sent' only; a failed send is printed or dropped.
send_doc_notification(body, outcomes) ==
    IF body = "invalid" THEN Resp(500, FALSE, TRUE, 0)
    ELSE IF body = "missing" \/ outcomes = <<>> THEN Resp(400, FALSE, TRUE, 0)
    ELSE IF sendgrid = "nolib" THEN Resp(500, FALSE, TRUE, 0)
    ELSE IF sendgrid = "nokey" THEN Resp(500, FALSE, TRUE, 0)
    ELSE LET done == send_all(outcomes)
         IN  [status |-> 200, success |-> Len(done.sent) > 0, error |-> FALSE,
              calls |-> Len(done.attempted), attempted |-> done.attempted,
              sent |-> done.sent, errors |-> <<>>]

\* What the Google side of export_to_docs comes to: no credentials in the
\* environment, credentials that do not load, a Docs/Drive call that raises,
\* the document created and shared.
GoogleOutcomes == {"nocreds", "badcreds", "raise", "ok"}

\* export_to_docs: the document first; then, when asked and when SendGrid is
\* there, the same loop.  The answer has 'success': True and 'emails_sent'.
export_to_docs(body, google, send_email, outcomes) ==
    IF body = "invalid" THEN Resp(500, FALSE, TRUE, 0)
    ELSE IF google # "ok" THEN Resp(500, FALSE, TRUE, 0)
    ELSE IF send_email /\ outcomes # <<>> /\ sendgrid = "ok"
         THEN LET done == send_all(outcomes)
              IN  [status |-> 200, success |-> TRUE, error |-> FALSE,
                   calls |-> Len(done.attempted), attempted |-> done.attempted,
                   sent |-> done.sent, errors |-> <<>>]
         ELSE Resp(200, TRUE, FALSE, 0)

\* list_drafts: without a storage client, and on any exception, an empty
\* list with success true.
list_drafts(o) ==
    IF ~gcs_client THEN Resp(200, TRUE, FALSE, 0)
    ELSE Resp(200, TRUE, FALSE, 1)

\* load_draft
load_draft(body, o) ==
    IF ~gcs_client THEN Resp(503, FALSE, TRUE, 0)
    ELSE IF body = "missing" THEN Resp(400, FALSE, TRUE, 0)
    ELSE IF o = "raise" THEN Resp(500, FALSE, TRUE, 1)
    ELSE Resp(200, TRUE, FALSE, 1)

\* The provider each of these entry points works with.
provider_of(handler) ==
    CASE handler \in {"get_youtube_videos", "get_youtube_video_by_url"} -> "video"
      [] handler = "search_perplexity" -> "search"
      [] handler \in {"gtp_generate_details", "generate_subject_lines"} -> "text"
      [] handler = "generate_images" -> "image"
      [] handler \in {"list_drafts", "load_draft"} -> "blob"
      [] OTHER -> "email"

\* The provider is unconfigured: the client object or its key is missing.
unavailable(provider) ==
    CASE provider = "video" -> ~youtube_client
      [] provider = "search" -> ~perplexity_available
      [] provider = "text" -> ~claude_client
      [] provider = "image" -> ~gemini_available
      [] provider = "blob" -> ~gcs_client
      [] OTHER -> sendgrid # "ok"

Handled(handler, body, url, outcomes, resp) ==
    /\ api_resp = NoApiResp
    /\ api_in' = [handler |-> handler, body |-> body, url |-> url, outcomes |-> outcomes,
                  opts |-> <<>>]
    /\ api_resp' = resp
    /\ UNCHANGED <<cfgVars, gtpVars, draftVars, adapterVars, nlVars, pureVars>>

api_get_youtube_videos ==
    /\ api_resp = NoApiResp
    /\ \E body \in {"invalid", "json"}, sort \in {"recent", "popular"},
          page_token \in PageTokens, o1 \in ListOutcomes, o2 \in ProviderOutcomes :
        /\ api_in' = [handler |-> "get_youtube_videos", body |-> body, url |-> <<sort>>,
                      outcomes |-> <<o1, o2>>, opts |-> page_token]
        /\ api_resp' = get_youtube_videos(body, sort, page_token, o1, o2)
    /\ UNCHANGED <<cfgVars, gtpVars, draftVars, adapterVars, nlVars, pureVars>>

api_get_youtube_video_by_url ==
    \E body \in Bodies, url \in VideoUrls, o \in ProviderOutcomes :
        /\ body = "missing" <=> url = <<>>
        /\ Handled("get_youtube_video_by_url", body, url, <<o>>,
                get_youtube_video_by_url(body, url, o))

api_search_perplexity ==
    \E body \in Bodies, o \in SearchOutcomes :
        Handled("search_perplexity", body, o.urls, <<o.kind>>, search_perplexity(body, o))

api_gtp_generate_details ==
    \E body \in {"invalid", "json"}, o \in TextOutcomes :
        Handled("gtp_generate_details", body, <<>>, <<o>>, gtp_generate_details(body, o))

api_generate_subject_lines ==
    \E body \in {"invalid", "json"}, o \in TextOutcomes :
        Handled("generate_subject_lines", body, <<>>, <<o>>,
                generate_subject_lines(body, o))

api_generate_images ==
    \E body \in {"invalid", "json"}, outcomes \in SeqsUpTo(ImageOutcomes, MaxPrompts) :
        Handled("generate_images", body, <<>>, outcomes, generate_images(body, outcomes))

api_send_preview ==
    \E body \in Bodies, outcomes \in SeqsUpTo(SendOutcomes, MaxRecipients) :
        /\ body = "missing" <=> outcomes = <<>>
        /\ Handled("send_preview", body, <<>>, outcomes, send_preview(body, outcomes))

api_send_doc_notification ==
    \E body \in Bodies, outcomes \in SeqsUpTo(SendOutcomes, MaxRecipients) :
        /\ body = "missing" <=> outcomes = <<>>
        /\ Handled("send_doc_notification", body, <<>>, outcomes,
                send_doc_notification(body, outcomes))

api_export_to_docs ==
    /\ api_resp = NoApiResp
    /\ \E body \in {"invalid", "json"}, google \in GoogleOutcomes, send_email \in BOOLEAN,
          outcomes \in SeqsUpTo(SendOutcomes, MaxRecipients) :
        /\ api_in' = [handler |-> "export_to_docs", body |-> body, url |-> <<>>,
                      outcomes |-> outcomes,
                      opts |-> <<google, IF send_email THEN "send_email" ELSE "">>]
        /\ api_resp' = export_to_docs(body, google, send_email, outcomes)
    /\ UNCHANGED <<cfgVars, gtpVars, draftVars, adapterVars, nlVars, pureVars>>

api_list_drafts ==
    \E o \in StorageOutcomes :
        Handled("list_drafts", "json", <<>>, <<o>>, list_drafts(o))

api_load_draft ==
    \E body \in {"missing", "json"}, o \in StorageOutcomes :
        Handled("load_draft", body, <<>>, <<o>>, load_draft(body, o))

ApiNextRequest ==
    /\ api_resp # NoApiResp
    /\ api_in' = NoApiIn
    /\ api_resp' = NoApiResp
    /\ UNCHANGED <<cfgVars, gtpVars, draftVars, adapterVars, nlVars, pureVars>>

InitApi ==
    /\ youtube_client \in BOOLEAN
    /\ perplexity_client \in {"None", "nokey", "ok"}
    /\ claude_client \in BOOLEAN
    /\ gemini_client \in {"None", "nokey", "ok"}
    /\ gcs_client \in BOOLEAN
    /\ sendgrid \in {"nolib", "nokey", "ok"}
    /\ channel = DefaultChannel
    /\ ApiIdle
    /\ GtpIdle /\ DraftsIdle /\ AdapterIdle /\ NewsletterIdle
    /\ PureIdle

NextApi ==
    \/ api_get_youtube_videos
    \/ api_get_youtube_video_by_url
    \/ api_search_perplexity
    \/ api_gtp_generate_details
    \/ api_generate_subject_lines
    \/ api_generate_images
    \/ api_send_preview
    \/ api_send_doc_notification
    \/ api_export_to_docs
    \/ api_list_drafts
    \/ api_load_draft
    \/ ApiNextRequest

SpecApi == InitApi /\ [][NextApi]_vars

(***************************************************************************)
(* Claims about the /api entry points                                      *)
(***************************************************************************)
Answered == api_resp # NoApiResp

\* C7: every /api entry point, on every path, answers with a boolean success
\* flag and, when success is false, a human-readable error string; no
\* exception escapes the handler.
C7_SuccessFlagAndError ==
    Answered =>
        /\ api_resp.status \in {200, 400, 404, 500, 503}
        /\ api_resp.success \in BOOLEAN
        /\ ~api_resp.success => api_resp.error

\* C9: whenever the video, search, text-generation, image-generation or
\* blob-storage provider an entry point depends on is unavailable or
\* unconfigured, a well-formed request is answered with success=false and
\* 503 at once, with no provider call.
C9_Unavailable503 ==
    (/\ Answered
     /\ api_in.body = "json"
     /\ provider_of(api_in.handler) # "email"
     /\ unavailable(provider_of(api_in.handler))) =>
        /\ api_resp.status = 503
        /\ ~api_resp.success
        /\ api_resp.calls = 0

(***************************************************************************)
(* generate_newsletter                                                     *)
(***************************************************************************)
\* What one claude_client.generate_content call comes to at the handler: a
\* response, or an exception.
CallOutcomes == {"ok", "raise"}

NewsletterInputs ==
    [body : {"invalid", "json"}, intro : BOOLEAN, news_of_month : BOOLEAN,
     trend_alert : BOOLEAN, guess_the_price : BOOLEAN, quick_tip : BOOLEAN,
     calls : [Slots -> CallOutcomes]]

\* The handler makes a text-generation call for the slot: always for the
\* agenda, for intro and quick tip when the request gives none, for the other
\* three when the request gives the item a title.
calls_for(slot, in) ==
    CASE slot = "intro" -> ~in.intro
      [] slot = "agenda_items" -> TRUE
      [] slot = "news_of_month" -> in.news_of_month
      [] slot = "trend_alert" -> in.trend_alert
      [] slot = "guess_the_price" -> in.guess_the_price
      [] OTHER -> ~in.quick_tip

\* claude_client.generate_content(...) for the slot: on a None client the
\* attribute access raises.
generate_content(slot, in) ==
    IF ~claude_client THEN "raise" ELSE in.calls[slot]

\* A slot's call with no try around it.
slot_text_unguarded(slot, in) ==
    IF generate_content(slot, in) = "raise" THEN "raised" ELSE "generated"

\* The try/except around each slot's call: the fallback on any exception.
slot_text(slot, in) ==
    IF generate_content(slot, in) = "raise" THEN "fallback" ELSE "generated"

\* generated[slot] as the handler leaves it.
slot_value(slot, in) ==
    IF calls_for(slot, in) THEN slot_text(slot, in)
    ELSE IF slot \in {"intro", "quick_tip"} THEN "provided"
    ELSE "absent"

\* generate_newsletter: the slots in order inside one outer try; an
\* exception outside the slots' own handlers ends in the outer except.
generate_newsletter(in) ==
    LET generated == [s \in Slots |-> slot_value(s, in)]
    IN  IF in.body = "invalid" \/ \E s \in Slots : generated[s] = "raised"
        THEN [status |-> 500, success |-> FALSE, error |-> TRUE,
              generated |-> [s \in Slots |-> "absent"]]
        ELSE [status |-> 200, success |-> TRUE, error |-> FALSE,
              generated |-> generated]

api_generate_newsletter ==
    /\ nl_resp = NoNlResp
    /\ \E in \in NewsletterInputs :
        /\ nl_in' = in
        /\ nl_resp' = generate_newsletter(in)
    /\ UNCHANGED <<cfgVars, gtpVars, draftVars, apiVars, adapterVars, pureVars>>

NewsletterNextRequest ==
    /\ nl_resp # NoNlResp
    /\ nl_in' = NoNlIn
    /\ nl_resp' = NoNlResp
    /\ UNCHANGED <<cfgVars, gtpVars, draftVars, apiVars, adapterVars, pureVars>>

InitNewsletter ==
    /\ claude_client \in BOOLEAN
    /\ youtube_client = TRUE /\ perplexity_client = "ok" /\ gemini_client = "ok"
    /\ gcs_client = TRUE /\ sendgrid = "ok"
    /\ channel = DefaultChannel
    /\ NewsletterIdle
    /\ GtpIdle /\ DraftsIdle /\ ApiIdle /\ AdapterIdle
    /\ PureIdle

NextNewsletter == api_generate_newsletter \/ NewsletterNextRequest

SpecNewsletter == InitNewsletter /\ [][NextNewsletter]_vars

(***************************************************************************)
(* Claims about generate_newsletter                                        *)
(***************************************************************************)
NewsletterAnswered == nl_resp # NoNlResp /\ nl_in.body = "json"

CallFailed(slot) == calls_for(slot, nl_in) /\ generate_content(slot, nl_in) = "raise"

\* C10: in generate_newsletter a failed text-generation call for a slot puts
\* the fallback value in that slot and in no other: every slot whose call
\* succeeded is generated, every slot the request provided is kept, and the
\* response is success=true.
C10_SlotFailureIsLocal ==
    NewsletterAnswered =>
        /\ nl_resp.status = 200
        /\ nl_resp.success
        /\ \A s \in Slots :
            /\ CallFailed(s) <=> nl_resp.generated[s] = "fallback"
            /\ (calls_for(s, nl_in) /\ ~CallFailed(s)) <=> nl_resp.generated[s] = "generated"

\* One slot's call fails while the client works for every other slot, all of
\* which are asked for.
C10_Witness ==
    /\ NewsletterAnswered
    /\ claude_client
    /\ \A s \in Slots : calls_for(s, nl_in)
    /\ \A s \in Slots : CallFailed(s) <=> s = "news_of_month"
    /\ nl_resp.success
    /\ nl_resp.generated["news_of_month"] = "fallback"
    /\ \A s \in Slots \ {"news_of_month"} : nl_resp.generated[s] = "generated"

(***************************************************************************)
(* Claims about the multi-recipient sends                                  *)
(***************************************************************************)
\* The request reached the send loop of its handler.
SendLoopRan ==
    /\ Answered
    /\ api_in.handler \in {"send_preview", "send_doc_notification", "export_to_docs"}
    /\ api_in.body = "json"
    /\ api_in.outcomes # <<>>
    /\ sendgrid = "ok"
    /\ api_in.handler = "export_to_docs" => api_in.opts = <<"ok", "send_email">>

\* C11 as stated: every recipient is attempted, in list order, whatever
\* became of the earlier ones; the response reports success whenever at
\* least one recipient was sent to, and reports which recipients failed.
C11_Original ==
    SendLoopRan =>
        /\ api_resp.attempted = [i \in 1..Len(api_in.outcomes) |-> i]
        /\ api_resp.sent = sent_to(api_in.outcomes)
        /\ api_resp.sent # <<>> => api_resp.success
        /\ api_resp.errors = failed_for(api_in.outcomes)

\* C11: in send_preview, send_doc_notification and the e-mail step of
\* export_to_docs every recipient is attempted, in list order, whatever
\* became of the earlier ones, and the response reports success whenever at
\* least one recipient was sent to.  send_preview reports which recipients
\* failed; the other two report the recipients sent to and no failure.
C11_EveryRecipientAttempted ==
    SendLoopRan =>
        /\ api_resp.attempted = [i \in 1..Len(api_in.outcomes) |-> i]
        /\ api_resp.sent = sent_to(api_in.outcomes)
        /\ api_resp.sent # <<>> => api_resp.success
        /\ api_resp.errors = IF api_in.handler = "send_preview"
                             THEN failed_for(api_in.outcomes) ELSE <<>>

\* The first recipient's send raises and the second is still sent to.
C11_Witness ==
    /\ SendLoopRan
    /\ api_in.handler = "send_doc_notification"
    /\ api_in.outcomes = <<"raise", "202">>
    /\ api_resp.attempted = <<1, 2>>
    /\ api_resp.sent = <<2>>
    /\ api_resp.success

(***************************************************************************)
(* parse_json_from_llm                                                     *)
(***************************************************************************)
\* A text is a sequence of tokens: the fence markers, the JSON punctuation,
\* the double quote, a number, a letter and white space.  FenceJson is the
\* marker of three backquotes followed by json, Fence the marker of three
\* backquotes alone: the first contains the second as a substring.
Q == "dq"
FenceJson == "fence_json"
Fence == "fence"
WS == " "
Tokens == {FenceJson, Fence, "{", "}", "[", "]", ",", ":", Q, "1", "a", WS}

\* str.strip()
RECURSIVE strip(_)
strip(text) ==
    IF text = <<>> THEN text
    ELSE IF text[1] = WS THEN strip(Tail(text))
    ELSE IF text[Len(text)] = WS THEN strip(SubSeq(text, 1, Len(text) - 1))
    ELSE text

\* White space between the tokens of a JSON text means nothing to json.loads;
\* inside a string it is content.
RECURSIVE unspaced(_, _)
unspaced(text, in_string) ==
    IF text = <<>> THEN <<>>
    ELSE IF text[1] = Q THEN <<Q>> \o unspaced(Tail(text), ~in_string)
    ELSE IF text[1] = WS /\ ~in_string THEN unspaced(Tail(text), in_string)
    ELSE <<text[1]>> \o unspaced(Tail(text), in_string)

is_string(t) ==
    /\ Len(t) >= 2
    /\ t[1] = Q /\ t[Len(t)] = Q
    /\ \A i \in 2..(Len(t) - 1) : t[i] # Q

Inner(t) == SubSeq(t, 2, Len(t) - 1)
Left(s, k) == SubSeq(s, 1, k - 1)
Right(s, k) == SubSeq(s, k + 1, Len(s))

\* The JSON grammar over the tokens: a number, a string, an array, an object.
RECURSIVE is_value(_), is_elements(_), is_members(_)
is_member(s) ==
    \E k \in 1..Len(s) : s[k] = ":" /\ is_string(Left(s, k)) /\ is_value(Right(s, k))
is_members(s) ==
    \/ is_member(s)
    \/ \E k \in 1..Len(s) : s[k] = "," /\ is_member(Left(s, k)) /\ is_members(Right(s, k))
is_elements(s) ==
    \/ is_value(s)
    \/ \E k \in 1..Len(s) : s[k] = "," /\ is_value(Left(s, k)) /\ is_elements(Right(s, k))
is_value(t) ==
    \/ t = <<"1">>
    \/ is_string(t)
    \/ /\ Len(t) >= 2 /\ t[1] = "[" /\ t[Len(t)] = "]"
       /\ (Len(t) = 2 \/ is_elements(Inner(t)))
    \/ /\ Len(t) >= 2 /\ t[1] = "{" /\ t[Len(t)] = "}"
       /\ (Len(t) = 2 \/ is_members(Inner(t)))

\* What parse_json_from_llm comes to: a parsed value, told by its text
\* without insignificant white space, or a JSONDecodeError carrying doc.
Parsed(value) == [kind |-> "value", value |-> value, doc |-> <<>>]
DecodeError(doc) == [kind |-> "raised", value |-> <<>>, doc |-> doc]

\* json.loads
loads(text) ==
    LET t == unspaced(text, FALSE)
    IN  IF is_value(t) THEN Parsed(t) ELSE DecodeError(text)

\* sub in text, for the two fence markers.
has_json_fence(text) == \E i \in 1..Len(text) : text[i] = FenceJson
has_fence(text) == \E i \in 1..Len(text) : text[i] \in {Fence, FenceJson}

First(text, S) == CHOOSE i \in 1..Len(text) : text[i] \in S /\ \A j \in 1..(i - 1) : text[j] \notin S

\* text.split(sep)[0]
before_first(text, S) ==
    IF \E i \in 1..Len(text) : text[i] \in S THEN Left(text, First(text, S)) ELSE text
\* what follows the first sep in text
after_first(text, S) == Right(text, First(text, S))

\* text.split(FenceJson)[1].split(Fence)[0].strip(): after the first
\* FenceJson, up to the next marker of either kind.
json_fenced(text) ==
    strip(before_first(after_first(text, {FenceJson}), {Fence, FenceJson}))

\* text.split(Fence)[1].split(Fence)[0].strip()
plain_fenced(text) ==
    strip(before_first(after_first(text, {Fence}), {Fence}))

\* Try 1
unfenced(text) ==
    IF has_json_fence(text) THEN json_fenced(text)
    ELSE IF has_fence(text) THEN plain_fenced(text)
    ELSE text

\* re.search(open [\s\S]* close, text): from the first open that has a close
\* after it to the last close; <<>> without a match.
regex_span(text, open, close) ==
    LET opens == {i \in 1..Len(text) : text[i] = open}
        closes == {i \in 1..Len(text) : text[i] = close}
    IN  IF \E i \in opens, j \in closes : i < j
        THEN LET i == CHOOSE i \in opens : \A k \in opens : i <= k
                 j == CHOOSE j \in closes : \A k \in closes : k <= j
             IN  SubSeq(text, i, j)
        ELSE <<>>

\* parse_json_from_llm
parse_json_from_llm(content) ==
    IF content = <<>> THEN Parsed(<<"{", "}">>)
    ELSE LET text == unfenced(strip(content))
             object == regex_span(text, "{", "}")
             array == regex_span(text, "[", "]")
         IN  IF loads(text).kind = "value" THEN loads(text)
             ELSE IF object # <<>> /\ loads(object).kind = "value" THEN loads(object)
             ELSE IF array # <<>> /\ loads(array).kind = "value" THEN loads(array)
             ELSE DecodeError(text)

\* Contents of an LLM response, the empty one included.
Contents == SeqsUpTo(Tokens, MaxContent)

\* Serialisations of JSON values: json.dumps without white space.
StringTexts == {<<Q>> \o s \o <<Q>> : s \in SeqsUpTo({"a", Fence, FenceJson, "1"}, MaxString)}
Atoms == {<<"1">>} \cup StringTexts
JsonTexts ==
    Atoms
    \cup {<<"[", "]">>, <<"{", "}">>}
    \cup {<<"[">> \o a \o <<"]">> : a \in Atoms}
    \cup {<<"{", Q, "a", Q, ":">> \o a \o <<"}">> : a \in Atoms}

\* Prose around a fenced block.
Prose == {<<>>, <<"a", WS>>, <<WS, "a">>}

\* The serialisation inside a FenceJson fence, prose around it.
fenced(before, json, after) ==
    before \o <<FenceJson, WS>> \o json \o <<WS, Fence>> \o after

parse_content ==
    /\ pj_out = NoParse
    /\ \E content \in Contents :
        /\ pj_in' = [content |-> content, json |-> <<>>, form |-> "content"]
        /\ pj_out' = [of |-> parse_json_from_llm(content), bare |-> NoParsed]
    /\ UNCHANGED exceptParse

\* The same serialisation parsed bare and parsed inside a fence.
parse_fenced ==
    /\ pj_out = NoParse
    /\ \E json \in JsonTexts, before \in Prose, after \in Prose :
        /\ pj_in' = [content |-> fenced(before, json, after), json |-> json, form |-> "fenced"]
        /\ pj_out' = [of |-> parse_json_from_llm(fenced(before, json, after)),
                      bare |-> parse_json_from_llm(json)]
    /\ UNCHANGED exceptParse

\* A JSON array with prose before and after it, no fence.
ArrayTexts ==
    {<<"[", "]">>, <<"[", "1", "]">>, <<"[", "1", ",", "1", "]">>,
     <<"[", "{", "}", "]">>, <<"[", "{", "}", ",", "{", "}", "]">>,
     <<"[", "{", Q, "a", Q, ":", "1", "}", "]">>,
     <<"[", "{", Q, "a", Q, ":", "1", "}", ",", "{", Q, "a", Q, ":", "1", "}", "]">>,
     <<"[", "[", "1", "]", "]">>, <<"[", Q, "a", Q, "]">>}
ProseBefore == {<<"a", WS>>, <<"a", ":", WS>>, <<"a", ",", WS, "a", WS>>}
ProseAfter == {<<WS, "a">>, <<WS, "a", WS, "a">>, <<WS, "1", "a">>}
parse_embedded ==
    /\ pj_out = NoParse
    /\ \E json \in ArrayTexts, before \in ProseBefore, after \in ProseAfter :
        /\ pj_in' = [content |-> before \o json \o after, json |-> json, form |-> "embedded"]
        /\ pj_out' = [of |-> parse_json_from_llm(before \o json \o after),
                      bare |-> loads(json)]
    /\ UNCHANGED exceptParse

parse_return ==
    /\ pj_out # NoParse
    /\ pj_in' = NoContent
    /\ pj_out' = NoParse
    /\ UNCHANGED exceptParse

InitParse ==
    /\ youtube_client = TRUE /\ perplexity_client = "ok" /\ claude_client = TRUE
    /\ gemini_client = "ok" /\ gcs_client = TRUE /\ sendgrid = "ok"
    /\ channel = DefaultChannel
    /\ PureIdle
    /\ GtpIdle /\ DraftsIdle /\ ApiIdle /\ AdapterIdle /\ NewsletterIdle

NextParse == parse_content \/ parse_fenced \/ parse_embedded \/ parse_return

SpecParse == InitParse /\ [][NextParse]_vars

(***************************************************************************)
(* Claims about parse_json_from_llm                                        *)
(***************************************************************************)
ParsedContent == pj_out # NoParse /\ pj_in.form = "content"
ParsedFenced == pj_out # NoParse /\ pj_in.form = "fenced"

\* No tier extracts JSON from the content: not the text left by the fence
\* step, not its widest {...} span, not its widest [...] span.
NoJsonIn(content) ==
    LET text == unfenced(strip(content))
    IN  /\ ~is_value(unspaced(text, FALSE))
        /\ ~is_value(unspaced(regex_span(text, "{", "}"), FALSE))
        /\ ~is_value(unspaced(regex_span(text, "[", "]"), FALSE))

\* C12: for every input from which no JSON can be extracted, the empty input
\* included, parse_json_from_llm raises a parse error that carries the
\* original input text; it never returns an empty or default object.
C12_RaisesWithOriginalText ==
    (ParsedContent /\ NoJsonIn(pj_in.content)) =>
        /\ pj_out.of.kind = "raised"
        /\ pj_out.of.doc = pj_in.content

\* C13: for every valid JSON value, parsing its serialisation inside a
\* FenceJson fence, prose around it or not, gives the same parsed value as
\* parsing the bare serialisation.
C13_FenceIsTransparent ==
    ParsedFenced =>
        /\ pj_out.of.kind = pj_out.bare.kind
        /\ pj_out.of.value = pj_out.bare.value

(***************************************************************************)
(* The cleanup of generated text                                           *)
(***************************************************************************)
\* A text is a sequence of characters.  "long" stands for a run of sixty
\* letters, so that a line can reach the length strip_ai_title tests for.
NL == "nl"
SP == " "
Blank == {SP, NL}

\* The longest first line strip_ai_title takes for a title is one shorter.
TitleLimit == 60
LongRun == TitleLimit

RECURSIVE str_len(_)
str_len(text) ==
    IF text = <<>> THEN 0
    ELSE (IF text[1] = "long" THEN LongRun ELSE 1) + str_len(Tail(text))

\* str.strip() and str.lstrip(chars), for a set of characters
RECURSIVE lstrip_chars(_, _)
lstrip_chars(text, chars) ==
    IF text # <<>> /\ text[1] \in chars THEN lstrip_chars(Tail(text), chars) ELSE text
RECURSIVE rstrip_chars(_, _)
rstrip_chars(text, chars) ==
    IF text # <<>> /\ text[Len(text)] \in chars
    THEN rstrip_chars(SubSeq(text, 1, Len(text) - 1), chars)
    ELSE text
strip_chars(text, chars) == rstrip_chars(lstrip_chars(text, chars), chars)

startswith(text, prefix) ==
    Len(text) >= Len(prefix) /\ SubSeq(text, 1, Len(prefix)) = prefix
endswith(text, suffix) ==
    Len(text) >= Len(suffix)
    /\ SubSeq(text, Len(text) - Len(suffix) + 1, Len(text)) = suffix

\* text.split('\n')[0] and '\n'.join(text.split('\n')[1:])
first_line_of(text) == before_first(text, {NL})
after_first_line(text) ==
    IF \E i \in 1..Len(text) : text[i] = NL THEN after_first(text, {NL}) ELSE <<>>

\* strip_ai_title
strip_ai_title(text) ==
    IF text = <<>> THEN text
    ELSE LET stripped == strip_chars(text, Blank)
             one_line == \A i \in 1..Len(stripped) : stripped[i] # NL
             line0 == strip_chars(first_line_of(stripped), Blank)
             first_line == IF startswith(line0, <<"#">>)
                           THEN strip_chars(lstrip_chars(line0, {"#"}), Blank)
                           ELSE line0
             rest == strip_chars(after_first_line(stripped), Blank)
         IN  IF one_line THEN stripped
             ELSE IF /\ str_len(first_line) < TitleLimit
                     /\ ~endswith(first_line, <<".">>)
                     /\ ~endswith(first_line, <<"!">>)
                     /\ rest # <<>>
                     /\ str_len(rest) > str_len(first_line)
                  THEN rest
             ELSE IF startswith(first_line, <<"*", "*">>) /\ endswith(first_line, <<"*", "*">>)
                  THEN IF rest # <<>> THEN rest
                       ELSE strip_chars(strip_chars(first_line, {"*"}), Blank)
             ELSE stripped

TitleChars == {"a", "long", ".", "!", "?", "#", "*", SP, NL}
TitleTexts == SeqsUpTo(TitleChars, MaxTitle)

\* The label and quote stripping of generate_intro.  A word of the label is
\* one character of the text: Month is a month name, Dash one of : ; - and
\* the two long dashes.
Month == "june"
Dash == ":"
DQ == "dquote"
SQ == "squote"
IntroWords == {"intro", "introduction"}

\* (?:word\s+)? at the head of text: what is left after it
skip_word(text, word) ==
    IF Len(text) >= 2 /\ text[1] = word /\ text[2] \in Blank
    THEN lstrip_chars(Tail(text), Blank)
    ELSE text

\* re.sub of the label pattern, which is anchored at the head of the text;
\* the second pattern of generate_intro requires the month
strip_label(text, month_required) ==
    LET month == Len(text) >= 2 /\ text[1] = Month /\ text[2] \in Blank
        a == skip_word(text, Month)
        b == skip_word(a, "newsletter")
    IN  IF (month_required => month) /\ b # <<>> /\ b[1] \in IntroWords
        THEN lstrip_chars(Tail(b), Blank \cup {Dash})
        ELSE text

unquote(text, quote) ==
    IF startswith(text, <<quote>>) /\ endswith(text, <<quote>>)
    THEN strip_chars(SubSeq(text, 2, Len(text) - 1), Blank)
    ELSE text

\* generate_intro: the intro it answers with for the content Claude returned
generate_intro(content) ==
    LET s0 == strip_chars(content, Blank)
        s1 == strip_chars(strip_label(s0, FALSE), Blank)
        s2 == strip_chars(strip_label(s1, TRUE), Blank)
    IN  unquote(unquote(s2, DQ), SQ)

IntroChars == {Month, "newsletter", "intro", "introduction", Dash, SP, DQ, SQ, "a"}
IntroTexts == SeqsUpTo(IntroChars, MaxIntro)

\* convert_markdown_to_html.  The index of the first character of S at or
\* after i, 0 when there is none.
first_in(text, i, S) ==
    LET at == {k \in i..Len(text) : text[k] \in S}
    IN  IF at = {} THEN 0 ELSE CHOOSE k \in at : \A m \in at : k <= m

\* where a match of \[([^\]]+)\]\(([^)]+)\) that starts at i ends, 0 for none
link_close(text, i) == first_in(text, i + 1, {"]"})
link_end(text, i) ==
    LET k == link_close(text, i)
        m == first_in(text, k + 2, {")"})
    IN  IF /\ text[i] = "[" /\ k > i + 1
           /\ k + 1 <= Len(text) /\ text[k + 1] = "("
           /\ m > k + 2
        THEN m ELSE 0
RECURSIVE sub_links(_, _)
sub_links(text, i) ==
    IF i > Len(text) THEN <<>>
    ELSE IF link_end(text, i) > 0
         THEN LET k == link_close(text, i)
                  m == link_end(text, i)
              IN  <<"<a href=">> \o SubSeq(text, k + 2, m - 1) \o <<" target style>">>
                  \o SubSeq(text, i + 1, k - 1) \o <<"</a>">> \o sub_links(text, m + 1)
         ELSE <<text[i]>> \o sub_links(text, i + 1)

\* where a match of \*\*([^*]+)\*\* that starts at i ends, 0 for none
bold_end(text, i) ==
    LET k == first_in(text, i + 2, {"*"})
    IN  IF /\ text[i] = "*" /\ i + 1 <= Len(text) /\ text[i + 1] = "*"
           /\ k > i + 2
           /\ k + 1 <= Len(text) /\ text[k + 1] = "*"
        THEN k + 1 ELSE 0
RECURSIVE sub_bold(_, _)
sub_bold(text, i) ==
    IF i > Len(text) THEN <<>>
    ELSE IF bold_end(text, i) > 0
         THEN <<"<strong>">> \o SubSeq(text, i + 2, bold_end(text, i) - 2) \o <<"</strong>">>
              \o sub_bold(text, bold_end(text, i) + 1)
         ELSE <<text[i]>> \o sub_bold(text, i + 1)

\* where a match of (?<!\*)\*([^*]+)\*(?!\*) that starts at i ends, 0 for none
em_end(text, i) ==
    LET k == first_in(text, i + 1, {"*"})
    IN  IF /\ text[i] = "*" /\ (i = 1 \/ text[i - 1] # "*")
           /\ k > i + 1
           /\ (k = Len(text) \/ text[k + 1] # "*")
        THEN k ELSE 0
RECURSIVE sub_em(_, _)
sub_em(text, i) ==
    IF i > Len(text) THEN <<>>
    ELSE IF em_end(text, i) > 0
         THEN <<"<em>">> \o SubSeq(text, i + 1, em_end(text, i) - 1) \o <<"</em>">>
              \o sub_em(text, em_end(text, i) + 1)
         ELSE <<text[i]>> \o sub_em(text, i + 1)

convert_markdown_to_html(text) ==
    IF text = <<>> THEN text
    ELSE sub_em(sub_bold(sub_links(text, 1), 1), 1)

MarkdownChars == {"*", "[", "]", "(", ")", "a"}
MarkdownTexts == SeqsUpTo(MarkdownChars, MaxMarkdown) \cup SeqsUpTo({"*", "a"}, MaxStars)

\* The cleanup handlers: each is applied to a text, and again to its own
\* output.
Cleaned(fn, text, once, twice) == [fn |-> fn, text |-> text, once |-> once, twice |-> twice]

call_strip_ai_title ==
    /\ clean = NoClean
    /\ \E text \in TitleTexts :
         clean' = Cleaned("strip_ai_title", text, strip_ai_title(text),
                          strip_ai_title(strip_ai_title(text)))
    /\ UNCHANGED exceptClean

call_generate_intro ==
    /\ clean = NoClean
    /\ \E text \in IntroTexts :
         clean' = Cleaned("generate_intro", text, generate_intro(text),
                          generate_intro(generate_intro(text)))
    /\ UNCHANGED exceptClean

call_convert_markdown_to_html ==
    /\ clean = NoClean
    /\ \E text \in MarkdownTexts :
         clean' = Cleaned("convert_markdown_to_html", text, convert_markdown_to_html(text),
                          convert_markdown_to_html(convert_markdown_to_html(text)))
    /\ UNCHANGED exceptClean

clean_return ==
    /\ clean # NoClean
    /\ clean' = NoClean
    /\ UNCHANGED exceptClean

InitCleanup ==
    /\ youtube_client = TRUE /\ perplexity_client = "ok" /\ claude_client = TRUE
    /\ gemini_client = "ok" /\ gcs_client = TRUE /\ sendgrid = "ok"
    /\ channel = DefaultChannel
    /\ PureIdle
    /\ GtpIdle /\ DraftsIdle /\ ApiIdle /\ AdapterIdle /\ NewsletterIdle

NextCleanup ==
    \/ call_strip_ai_title
    \/ call_generate_intro
    \/ call_convert_markdown_to_html
    \/ clean_return

SpecCleanup == InitCleanup /\ [][NextCleanup]_vars

\* C14: whatever text a cleanup was given, applying it to its own output
\* returns that output unchanged.
C14_CleanupIdempotent == clean # NoClean => clean.twice = clean.once

(***************************************************************************)
(* The video listing                                                       *)
(***************************************************************************)
PopularCalled ==
    \/ adapter_call.method = "get_videos_by_popularity"
    \/ adapter_call.method = "get_videos_sorted" /\ adapter_call.sort = "popular"

\* The pool the popular listing fetched: what get_channel_videos gave it.
FetchedPool ==
    get_channel_videos(Min(adapter_call.n * 2, 50), NoToken,
                       adapter_call.outcomes[1], adapter_call.outcomes[2]).items

DistinctViews(videos) ==
    \A i, j \in 1..Len(videos) : i # j => videos[i].view_count # videos[j].view_count

VideoSet(videos) == {videos[i] : i \in 1..Len(videos)}

\* C15: when the fetched pool has distinct view counts, the popular list is
\* strictly descending by view count, is no longer than n, and holds exactly
\* the n most viewed videos of the pool (the whole pool when it has fewer).
C15_PopularIsTopOfPool ==
    (PopularCalled /\ DistinctViews(FetchedPool)) =>
        LET videos == adapter_result.items
            n == adapter_call.n
        IN  /\ \A i \in 1..(Len(videos) - 1) :
                   videos[i].view_count > videos[i + 1].view_count
            /\ Len(videos) <= n
            /\ Len(videos) = Min(n, Len(FetchedPool))
            /\ VideoSet(videos) \subseteq VideoSet(FetchedPool)
            /\ \A v \in VideoSet(FetchedPool) \ VideoSet(videos), w \in VideoSet(videos) :
                   v.view_count < w.view_count

\* A pool of three videos with distinct counts, not in order of views, of
\* which the two most viewed were asked for.
C15_Witness ==
    /\ adapter_call.method = "get_videos_by_popularity"
    /\ adapter_call.n = 2
    /\ Len(FetchedPool) = 3 /\ DistinctViews(FetchedPool)
    /\ FetchedPool[1].view_count < FetchedPool[3].view_count
    /\ Len(adapter_result.items) = 2

PopularListed ==
    /\ api_in.handler = "get_youtube_videos" /\ api_in.url = <<"popular">>
    /\ api_resp.status = 200

\* What the handler answers to the same request made without a page token.
WithoutPageToken ==
    get_youtube_videos(api_in.body, "popular", NoToken, api_in.outcomes[1], api_in.outcomes[2])

\* C16: a popular listing answers with a null next_page_token whatever the
\* provider responded, and the page_token of the request changes nothing in
\* the answer.
C16_PopularTokenIsNull ==
    PopularListed =>
        /\ api_resp.next_page_token = NoToken
        /\ api_resp = WithoutPageToken

(***************************************************************************)
(* Videos by URL                                                           *)
(***************************************************************************)
UrlCalled == adapter_call.method = "get_video_by_url"
WatchUrl(v) == Url(Https, "www.youtube.com", "/watch", "", v)
RecognisedUrls == UNION {UrlShapes(v) : v \in VideoIds}

\* C17: a URL of video v in any of the shapes watch?v=v, youtu.be/v,
\* /shorts/v and /embed/v yields the identifier v, and get_video_by_url
\* gives for it what it gives for the watch URL of v under the same provider
\* response.
C17_ShapesAgree ==
    \A v \in VideoIds :
        (UrlCalled /\ adapter_call.url \in UrlShapes(v)) =>
            /\ extract_video_id(adapter_call.url) = <<v>>
            /\ adapter_result = get_video_by_url(WatchUrl(v), adapter_call.outcomes[1])

\* The embed URL of a video of the channel, answered with its record.
C17_Witness ==
    /\ UrlCalled
    /\ adapter_call.url = Url(Https, "www.youtube.com", "/embed/", "v2", Absent)
    /\ adapter_result.kind = "value"
    /\ adapter_result.items[1].video_id = "v2"

\* C18: for a URL of no recognised shape get_video_by_url returns None: it
\* does not raise and issues no request to the provider.
C18_UnrecognisedIsNone ==
    (UrlCalled /\ adapter_call.url \notin RecognisedUrls) =>
        /\ adapter_result.kind = "none"
        /\ adapter_result.requests = 0

\* A watch URL without v, while a request to the provider would time out.
C18_Witness ==
    /\ UrlCalled
    /\ adapter_call.url = Url(Https, "www.youtube.com", "/watch", "", Absent)
    /\ adapter_call.outcomes = <<"timeout">>
    /\ adapter_result = None

(***************************************************************************)
(* Image generation                                                        *)
(***************************************************************************)
ImagesGenerated ==
    /\ api_in.handler = "generate_images" /\ api_in.body = "json"
    /\ gemini_available /\ api_resp # NoApiResp

\* C19: resize_image does not raise; for image data it cannot decode or
\* process the section's entry carries that data unchanged, and the request
\* completes with an entry for every section, the resized image where the
\* resizing worked.
C19_ResizeFailureKeepsImage ==
    ImagesGenerated =>
        /\ api_resp.status = 200 /\ api_resp.success
        /\ Len(api_resp.images) = Len(api_in.outcomes)
        /\ \A i \in 1..Len(api_in.outcomes) :
              /\ api_in.outcomes[i] \in ResizeFailures =>
                    api_resp.images[i] = [url |-> DataUrl(ImageData), error |-> FALSE]
              /\ api_in.outcomes[i] = "ok" =>
                    api_resp.images[i] = [url |-> DataUrl(Resized(ImageData)), error |-> FALSE]

\* An image that cannot be decoded, followed by one that is resized.
C19_Witness ==
    /\ ImagesGenerated
    /\ api_in.outcomes = <<"undecodable", "ok">>
    /\ api_resp.images[1].url = DataUrl(ImageData)
    /\ api_resp.images[2].url = DataUrl(Resized(ImageData))

(***************************************************************************)
(* What PerplexityClient.search makes of a 200 answer                      *)
(***************************************************************************)
\* The content of the answer: nothing, a JSON object with a results array,
\* the same cut short so that json.loads fails, a JSON array, or prose.
\* results are the entries of the array (an entry stands for its url), urls
\* the URLs that stand in the text; those of a JSON text are its entries'.
Content(kind, results, urls) == [kind |-> kind, results |-> results, urls |-> urls]
\* Entries of a results array: two with url and title, one with a
\* placeholder url, one without title.
ResultEntries == {"https://a.com/1", "https://b.com/2", "https://example.com/x", "untitled"}
ProseUrls == {"https://p.com/1", "https://q.com/2"}
url_of(entry) == IF entry = "untitled" THEN "https://c.com/3" ELSE entry
AnswerContents ==
    {Content("empty", <<>>, <<>>), Content("json_array", <<>>, <<>>)}
    \cup {Content(k, r, [i \in 1..Len(r) |-> url_of(r[i])]) :
            k \in {"json", "broken_json"}, r \in SeqsUpTo(ResultEntries, MaxCitations)}
    \cup {Content("prose", <<>>, u) : u \in SeqsUpTo(ProseUrls, MaxCitations)}
\* The citations array: URLs, and entries that are empty or no strings
Citations == SeqsUpTo({"https://s.com/1", "https://t.com/2", ""}, MaxCitations)

Found(url, by) == [url |-> url, by |-> by]
first_n(seq, n) == SubSeq(seq, 1, Min(n, Len(seq)))

\* _parse_with_citations: one result per citation that is a non-empty
\* string, its title taken from the sentences or made up from the domain
parse_with_citations(content, citations, max_results) ==
    LET kept == SelectSeq(first_n(citations, max_results), LAMBDA url : url # "")
    IN  Value([i \in 1..Len(kept) |-> Found(kept[i], "citations")])

\* _parse_plain_text: the URLs of the text, with placeholder titles
parse_plain_text(content, max_results) ==
    LET urls == first_n(content.urls, max_results)
    IN  Value([i \in 1..Len(urls) |-> Found(urls[i], "plain_text")])

\* _parse_results: the entries of the results array that have a url and a
\* title and no placeholder url; the text's URLs when json.loads fails;
\* data.get on a JSON array raises AttributeError.
parse_results(content, max_results) ==
    IF content.kind = "json"
    THEN LET kept == SelectSeq(first_n(content.results, max_results),
                               LAMBDA r : r \notin {"https://example.com/x", "untitled"})
         IN  Value([i \in 1..Len(kept) |-> Found(kept[i], "json")])
    ELSE IF content.kind = "json_array" THEN Raised
    ELSE parse_plain_text(content, max_results)

\* PerplexityClient.search from the content of a 200 answer on: the parser is
\* chosen by the citations alone, and the try turns an exception into [].
parse_answer(content, citations, max_results) ==
    LET results == IF citations # <<>>
                   THEN parse_with_citations(content, citations, max_results)
                   ELSE parse_results(content, max_results)
    IN  IF content.kind = "empty" THEN <<>>
        ELSE IF results.kind = "raised" THEN <<>>
        ELSE results.items

search_answer ==
    /\ pplx = NoAnswer
    /\ \E content \in AnswerContents, citations \in Citations, max_results \in 1..MaxCitations :
         pplx' = [content |-> content, citations |-> citations, max_results |-> max_results,
                  results |-> parse_answer(content, citations, max_results)]
    /\ UNCHANGED exceptAnswer

search_return ==
    /\ pplx # NoAnswer
    /\ pplx' = NoAnswer
    /\ UNCHANGED exceptAnswer

InitAnswer ==
    /\ youtube_client = TRUE /\ perplexity_client = "ok" /\ claude_client = TRUE
    /\ gemini_client = "ok" /\ gcs_client = TRUE /\ sendgrid = "ok"
    /\ channel = DefaultChannel
    /\ PureIdle
    /\ GtpIdle /\ DraftsIdle /\ ApiIdle /\ AdapterIdle /\ NewsletterIdle

NextAnswer == search_answer \/ search_return

SpecAnswer == InitAnswer /\ [][NextAnswer]_vars

SearchAnswered == pplx # NoAnswer /\ pplx.content.kind \notin {"empty", "json_array"}

\* The results each parser gives for the answer at hand
ByJson == parse_results(pplx.content, pplx.max_results).items
ByCitations == parse_with_citations(pplx.content, pplx.citations, pplx.max_results).items
ByPlainText == parse_plain_text(pplx.content, pplx.max_results).items

\* C20: the results are the structured ones whenever the content holds a
\* results object; otherwise those of the citation heuristic when there are
\* citations and it finds any; otherwise the bare URLs of the text under
\* placeholder titles.
C20_ParserOrder ==
    SearchAnswered =>
        pplx.results =
            IF pplx.content.kind = "json" THEN ByJson
            ELSE IF pplx.citations # <<>> /\ ByCitations # <<>> THEN ByCitations
            ELSE ByPlainText

(***************************************************************************)
(* The length of generated text                                            *)
(***************************************************************************)
\* The text Claude returns is known by its words: title counts the words of
\* a first line that the handler's cleanup takes for a title or a label (0
\* when there is none), body the words of the rest.
Sections == {"intro", "video_description", "quick_tip", "guess_the_price_question",
             "special_section", "general"}

\* word_limits of rewrite_content, and its default
word_limits(section) ==
    CASE section = "intro" -> 40
      [] section = "video_description" -> 80
      [] section = "quick_tip" -> 60
      [] section = "guess_the_price_question" -> 30
      [] section = "special_section" -> 80
      [] OTHER -> 100

\* The limit the prompt of a handler declares for the text it asks for
declared_limit(handler, section) ==
    CASE handler = "rewrite_content" -> word_limits(section)
      [] handler = "generate_intro" -> 40
      [] handler = "generate_quick_tip" -> 60
      [] handler = "generate_special_section" -> 80
      [] OTHER -> 40

\* What is left of the text: rewrite_content only trims; the other handlers
\* remove the label or title line.
returned_words(handler, title, body) ==
    IF handler = "rewrite_content" THEN title + body ELSE body

GenOutcomes == {"ok", "raise"}
GenAnswer(status, success, words) == [status |-> status, success |-> success, words |-> words]

\* The words of the intro generate_newsletter falls back to
FallbackIntroWords == 8

\* rewrite_content, generate_intro, generate_quick_tip, generate_special_section
\* and the intro slot of generate_newsletter share this shape: 503 without a
\* client, 500 when the call raises (the slot takes its fallback text
\* instead), and otherwise the cleaned text with success true.  No handler
\* counts the words.
generate_text(handler, section, o, title, body) ==
    IF handler = "generate_newsletter"
    THEN IF ~claude_client \/ o = "raise" THEN GenAnswer(200, TRUE, FallbackIntroWords)
         ELSE GenAnswer(200, TRUE, returned_words(handler, title, body))
    ELSE IF ~claude_client THEN GenAnswer(503, FALSE, 0)
    ELSE IF o = "raise" THEN GenAnswer(500, FALSE, 0)
    ELSE GenAnswer(200, TRUE, returned_words(handler, title, body))

GenHandlers ==
    {<<"rewrite_content", s>> : s \in Sections}
    \cup {<<"generate_intro", "intro">>, <<"generate_quick_tip", "quick_tip">>,
          <<"generate_special_section", "special_section">>,
          <<"generate_newsletter", "intro">>}

\* Texts of no word, of one, of the limit and of up to MaxExcess more
BodyWords(limit) == {0, 1} \cup (limit..(limit + MaxExcess))

Generated(handler, section, o, title, body) ==
    /\ gen = NoGen
    /\ LET a == generate_text(handler, section, o, title, body)
       IN  gen' = [handler |-> handler, section |-> section, outcome |-> o, title |-> title,
                   body |-> body, status |-> a.status, success |-> a.success,
                   words |-> a.words]
    /\ UNCHANGED exceptGen

api_generate_text ==
    \E h \in GenHandlers, o \in GenOutcomes, title \in {0, 2} :
        \E body \in BodyWords(declared_limit(h[1], h[2])) :
            Generated(h[1], h[2], o, title, body)

GenNextRequest ==
    /\ gen # NoGen
    /\ gen' = NoGen
    /\ UNCHANGED exceptGen

InitGen ==
    /\ youtube_client = TRUE /\ perplexity_client = "ok" /\ claude_client \in BOOLEAN
    /\ gemini_client = "ok" /\ gcs_client = TRUE /\ sendgrid = "ok"
    /\ channel = DefaultChannel
    /\ PureIdle
    /\ GtpIdle /\ DraftsIdle /\ ApiIdle /\ AdapterIdle /\ NewsletterIdle

NextGen == api_generate_text \/ GenNextRequest

SpecGen == InitGen /\ [][NextGen]_vars

\* C21: a text returned with success true has no more words than the limit
\* declared for its slot.
C21_WithinWordLimit ==
    (gen # NoGen /\ gen.success) => gen.words <= declared_limit(gen.handler, gen.section)

(***************************************************************************)
(* check_brand_guidelines                                                  *)
(***************************************************************************)
\* The characters of the raw text the fallback record quotes
RawLimit == 1000

BrandAnswer(status, success, brand_check) ==
    [status |-> status, success |-> success, brand_check |-> brand_check]
\* The record built at the except of the parse: passed, score 0, no issues,
\* and one suggestion that quotes the raw text
FallbackCheck(raw_content) ==
    [kind |-> "fallback", value |-> <<>>, raw |-> SubSeq(raw_content, 1, Min(RawLimit, Len(raw_content)))]
ParsedCheck(result) == [kind |-> "parsed", value |-> result.value, raw |-> <<>>]

\* check_brand_guidelines with the parse error left to the outer except
check_brand_guidelines_unguarded(o, raw_content) ==
    IF ~claude_client THEN BrandAnswer(503, FALSE, NoPayload)
    ELSE IF o = "raise" THEN BrandAnswer(500, FALSE, NoPayload)
    ELSE LET result == parse_json_from_llm(raw_content)
         IN  IF result.kind = "raised" THEN BrandAnswer(500, FALSE, NoPayload)
             ELSE BrandAnswer(200, TRUE, ParsedCheck(result))

\* check_brand_guidelines, given what generate_content came to and the
\* content it returned
check_brand_guidelines(o, raw_content) ==
    IF ~claude_client THEN BrandAnswer(503, FALSE, NoPayload)
    ELSE IF o = "raise" THEN BrandAnswer(500, FALSE, NoPayload)
    ELSE LET result == parse_json_from_llm(raw_content)
         IN  IF result.kind = "raised" THEN BrandAnswer(200, TRUE, FallbackCheck(raw_content))
             ELSE BrandAnswer(200, TRUE, ParsedCheck(result))

api_check_brand_guidelines ==
    /\ brand = NoBrand
    /\ \E o \in GenOutcomes, raw_content \in Contents :
         /\ o = "raise" => raw_content = <<>>
         /\ LET a == check_brand_guidelines(o, raw_content)
            IN  brand' = [outcome |-> o, content |-> raw_content, status |-> a.status,
                          success |-> a.success, brand_check |-> a.brand_check]
    /\ UNCHANGED exceptBrand

BrandNextRequest ==
    /\ brand # NoBrand
    /\ brand' = NoBrand
    /\ UNCHANGED exceptBrand

InitBrand ==
    /\ youtube_client = TRUE /\ perplexity_client = "ok" /\ claude_client \in BOOLEAN
    /\ gemini_client = "ok" /\ gcs_client = TRUE /\ sendgrid = "ok"
    /\ channel = DefaultChannel
    /\ PureIdle
    /\ GtpIdle /\ DraftsIdle /\ ApiIdle /\ AdapterIdle /\ NewsletterIdle

NextBrand == api_check_brand_guidelines \/ BrandNextRequest

SpecBrand == InitBrand /\ [][NextBrand]_vars

\* The text-generation call returned.
BrandCallReturned == brand # NoBrand /\ claude_client /\ brand.outcome = "ok"

DescriptionLimit == 500

\* What req.get(url, timeout=10) comes to: a final response with its status
\* code (redirects with a Location are followed, so a 3xx here is one without
\* a target, or 304), or one of the RequestException subclasses.
StatusCodes == {200, 204, 300, 304, 404, 500}
RequestExceptions == {"ConnectionError", "Timeout", "TooManyRedirects", "InvalidURL"}
Response(code) == [kind |-> "response", exc |-> "", code |-> code]
RequestException(exc) == [kind |-> "raised", exc |-> exc, code |-> 0]
Fetches == {Response(c) : c \in StatusCodes} \cup {RequestException(e) : e \in RequestExceptions}

\* Response.raise_for_status(): HTTPError for 4xx and 5xx, nothing otherwise
raise_for_status(response) ==
    IF 400 <= response.code /\ response.code < 600
    THEN [kind |-> "raised", exc |-> "HTTPError", code |-> response.code]
    ELSE response

\* extract_domain: the netloc without a leading www.
extract_domain(url) ==
    IF url.netloc # <<>> /\ Head(url.netloc) = "www." THEN Tail(url.netloc) ELSE url.netloc

ArticleUrls == {[netloc |-> <<"www.", "a.com">>, path |-> "/p"], [netloc |-> <<"b.org">>, path |-> "/p"]}

\* The meta tags of the fetched page; "" and 0 stand for a tag that is absent
\* or has empty content.
Pages == [og_title : {"", "og"}, title : {"", "tag"}, og_description : {0, 501},
          description : {0, 3}, og_image : {"", "img"}, og_site_name : {"", "site"},
          published_time : {"", "date"}]

MetaAnswer(status, success, error, metadata) ==
    [status |-> status, success |-> success, error |-> error, metadata |-> metadata]

\* The metadata read from the parsed page
page_metadata(url, page) ==
    LET title == IF page.og_title # "" THEN page.og_title ELSE page.title
        description == IF page.og_description # 0 THEN page.og_description
                       ELSE page.description
    IN  [title |-> IF title # "" THEN title ELSE "Untitled",
         description |-> Min(description, DescriptionLimit),
         image |-> page.og_image,
         publisher |-> IF page.og_site_name # "" THEN <<page.og_site_name>>
                       ELSE extract_domain(url),
         published_date |-> page.published_time,
         url |-> url]

\* fetch_article_metadata, given what the fetch came to and the page served
fetch_article_metadata(url, fetch, page) ==
    IF url = NoUrl
    THEN MetaAnswer(400, FALSE, [text |-> "URL is required", exc |-> "", code |-> 0], NoMetadata)
    ELSE LET response == IF fetch.kind = "raised" THEN fetch ELSE raise_for_status(fetch)
         IN  IF response.kind = "raised"
             THEN MetaAnswer(400, FALSE,
                             [text |-> "Failed to fetch URL", exc |-> response.exc,
                              code |-> response.code], NoMetadata)
             ELSE MetaAnswer(200, TRUE, NoFetchError, page_metadata(url, page))

api_fetch_article_metadata ==
    /\ meta = NoMeta
    /\ \E url \in ArticleUrls \cup {NoUrl}, fetch \in Fetches, page \in Pages :
         /\ url = NoUrl => fetch = Response(200)
         /\ (url = NoUrl \/ fetch.kind = "raised" \/ fetch.code >= 400)
                => page = [og_title |-> "", title |-> "", og_description |-> 0,
                           description |-> 0, og_image |-> "", og_site_name |-> "",
                           published_time |-> ""]
         /\ LET a == fetch_article_metadata(url, fetch, page)
            IN  meta' = [url |-> url, fetch |-> IF url = NoUrl THEN NoFetch ELSE fetch,
                         status |-> a.status, success |-> a.success, error |-> a.error,
                         metadata |-> a.metadata]
    /\ UNCHANGED exceptMeta

MetaNextRequest ==
    /\ meta # NoMeta
    /\ meta' = NoMeta
    /\ UNCHANGED exceptMeta

InitMeta ==
    /\ youtube_client = TRUE /\ perplexity_client = "ok" /\ claude_client = TRUE
    /\ gemini_client = "ok" /\ gcs_client = TRUE /\ sendgrid = "ok"
    /\ channel = DefaultChannel
    /\ PureIdle
    /\ GtpIdle /\ DraftsIdle /\ ApiIdle /\ AdapterIdle /\ NewsletterIdle

NextMeta == api_fetch_article_metadata \/ MetaNextRequest

SpecMeta == InitMeta /\ [][NextMeta]_vars

\* The page was asked for and the fetch failed: an exception of the request,
\* or a final status outside 2xx.
FetchFailed ==
    \/ meta.fetch.kind = "raised"
    \/ meta.fetch.kind = "response" /\ (meta.fetch.code < 200 \/ meta.fetch.code >= 300)

\* C23: every failure to fetch the page (connection error, timeout, non-2xx
\* status) is answered with success false, an error that carries the upstream
\* status or exception, and no metadata.
C23_FetchFailureIsError ==
    FetchFailed =>
        /\ ~meta.success
        /\ meta.metadata = NoMetadata
        /\ meta.error.text = "Failed to fetch URL"
        /\ meta.error.exc = (IF meta.fetch.kind = "raised" THEN meta.fetch.exc ELSE "HTTPError")
        /\ meta.error.code = meta.fetch.code

(***************************************************************************)
(* The title line strip_ai_title removes                                   *)
(***************************************************************************)
TitleStripped == clean.fn = "strip_ai_title"
Trimmed(text) == strip_chars(text, Blank)
MultiLine(text) == \E i \in 1..Len(Trimmed(text)) : Trimmed(text)[i] = NL
\* The first line as the function measures it: trimmed, header marks removed
TitleLine(text) ==
    LET line0 == strip_chars(first_line_of(Trimmed(text)), Blank)
    IN  IF startswith(line0, <<"#">>) THEN strip_chars(lstrip_chars(line0, {"#"}), Blank)
        ELSE line0
Remainder(text) == strip_chars(after_first_line(Trimmed(text)), Blank)
TerminalPunctuation == {<<".">>, <<"!">>, <<"?">>}
LooksLikeTitle(text) ==
    /\ str_len(TitleLine(text)) < TitleLimit
    /\ \A p \in TerminalPunctuation : ~endswith(TitleLine(text), p)
    /\ str_len(Remainder(text)) > str_len(TitleLine(text))

\* C24: strip_ai_title drops the first line of a multi-line text exactly when
\* the line is shorter than 60 characters, does not end in '.', '!' or '?',
\* and the remainder is strictly longer; the result is then the remainder,
\* and in every other case the trimmed text.
C24_DropsOnlyTitleLine ==
    (TitleStripped /\ MultiLine(clean.text)) =>
        clean.once = IF LooksLikeTitle(clean.text) THEN Remainder(clean.text)
                     ELSE Trimmed(clean.text)

(***************************************************************************)
(* An array inside prose                                                   *)
(***************************************************************************)
ParsedEmbedded == pj_out # NoParse /\ pj_in.form = "embedded"

\* C25: for every text made of prose around one valid JSON array, arrays of
\* objects included, parse_json_from_llm returns that whole array.
C25_ProseArrayIsWhole ==
    ParsedEmbedded =>
        /\ pj_out.of.kind = "value"
        /\ pj_out.of.value = pj_in.json

(***************************************************************************)
(* The key of a draft                                                      *)
(***************************************************************************)
\* Thread w holds a save_draft request whose blob name has been built.
SaveAddressed(w) == worker[w].op = "save_draft" /\ worker[w].name # <<>>

\* C26: two save_draft requests address the same blob only if they agree on
\* the month (case-insensitively), the year and the editor given in savedBy.
C26_EditorsKeepApart ==
    \A w \in Workers, u \in Workers :
        (SaveAddressed(w) /\ SaveAddressed(u) /\ worker[w].name = worker[u].name) =>
            /\ lower(worker[w].month) = lower(worker[u].month)
            /\ worker[w].year = worker[u].year
            /\ worker[w].savedBy = worker[u].savedBy

(***************************************************************************)
(* The saved-articles list                                                 *)
(***************************************************************************)
\* The urls of the articles a request may carry ("" is the missing field).
ArticleKeys == {"u1", "u2"}

\* The article of request n: its url and the rest of what the request
\* carried (n stands for it, dateSaved included).
Article(url, n) == [url |-> url, req |-> n]

\* The list in the blob SAVED_ITEMS_BLOB, empty without the blob.
stored_articles(store) ==
    IF blob_exists(store, SAVED_ITEMS_BLOB) THEN store[SAVED_ITEMS_BLOB].articles ELSE <<>>

\* add_saved_article taking no url for saved already
never_saved(articles, url) == FALSE

\* any(a.get('url') == article['url'] for a in articles)
has_url(articles, url) == \E i \in 1..Len(articles) : articles[i].url = url

\* articles.insert(0, article)
insert_front(articles, article) == <<article>> \o articles

\* delete_saved_article: [a for a in articles if a.get('url') != url]
remove_url(articles, url) == SelectSeq(articles, LAMBDA a : a.url # url)

SaverBusy(w) == sa[w].pc \notin {"idle", "done"}

SaverBegin(w, rec) ==
    sa' = [v \in Workers |->
              IF v = w THEN [rec EXCEPT !.overlap = \E u \in Workers \ {w} : SaverBusy(u)]
              ELSE IF SaverBusy(v) THEN [sa[v] EXCEPT !.overlap = TRUE]
              ELSE sa[v]]

SaverFinish(w, status) == sa' = [sa EXCEPT ![w].pc = "done", ![w].status = status]

savedRest == <<cfgVars, gtpVars, worker, uploaded, apiVars, adapterVars, nlVars,
               parseVars, cleanVars, answerVars, genVars, brandVars, metaVars>>

\* POST and DELETE /api/saved-articles up to the first storage call: the
\* availability test and the test of the url.
saved_article_begin(w) ==
    /\ sa[w].pc = "idle"
    /\ nreq < MaxRequests
    /\ nreq' = nreq + 1
    /\ \E op \in {"add_saved_article", "delete_saved_article"}, url \in ArticleKeys \cup {""} :
         SaverBegin(w,
            IF ~gcs_client
            THEN [IdleSaver EXCEPT !.op = op, !.req = nreq + 1, !.pc = "done", !.status = 503]
            ELSE IF url = ""
            THEN [IdleSaver EXCEPT !.op = op, !.req = nreq + 1, !.pc = "done", !.status = 400]
            ELSE [IdleSaver EXCEPT !.op = op, !.req = nreq + 1, !.url = url, !.pc = "exists"])
    /\ UNCHANGED <<blobs, savedRest>>

\* blob.exists(): without the blob the list is empty; the call may raise.
saved_article_exists(w) ==
    /\ sa[w].pc = "exists"
    /\ \/ /\ blob_exists(blobs, SAVED_ITEMS_BLOB)
          /\ sa' = [sa EXCEPT ![w].pc = "download"]
       \/ /\ ~blob_exists(blobs, SAVED_ITEMS_BLOB)
          /\ sa' = [sa EXCEPT ![w].pc = "upload", ![w].read = <<>>]
       \/ SaverFinish(w, 500)
    /\ UNCHANGED <<blobs, nreq, savedRest>>

\* json.loads(blob.download_as_text()).get('articles', []); it raises when
\* the blob is gone or the call fails.
saved_article_download(w) ==
    /\ sa[w].pc = "download"
    /\ \/ /\ blob_exists(blobs, SAVED_ITEMS_BLOB)
          /\ sa' = [sa EXCEPT ![w].pc = "upload", ![w].read = stored_articles(blobs)]
       \/ SaverFinish(w, 500)
    /\ UNCHANGED <<blobs, nreq, savedRest>>

\* add_saved_article from the test for the url on: 'Already saved' without
\* a write, or the article in front and upload_from_string, which may raise.
add_saved_article_upload(w) ==
    /\ sa[w].op = "add_saved_article" /\ sa[w].pc = "upload"
    /\ IF has_url(sa[w].read, sa[w].url)
       THEN /\ SaverFinish(w, 200)
            /\ UNCHANGED blobs
       ELSE \/ /\ blobs' = upload_from_string(blobs, SAVED_ITEMS_BLOB,
                             [articles |-> insert_front(sa[w].read, Article(sa[w].url, sa[w].req))])
               /\ SaverFinish(w, 200)
            \/ /\ SaverFinish(w, 500)
               /\ UNCHANGED blobs
    /\ UNCHANGED <<nreq, savedRest>>

\* delete_saved_article: the list without the url and upload_from_string,
\* which may raise.
delete_saved_article_upload(w) ==
    /\ sa[w].op = "delete_saved_article" /\ sa[w].pc = "upload"
    /\ \/ /\ blobs' = upload_from_string(blobs, SAVED_ITEMS_BLOB,
                          [articles |-> remove_url(sa[w].read, sa[w].url)])
          /\ SaverFinish(w, 200)
       \/ /\ SaverFinish(w, 500)
          /\ UNCHANGED blobs
    /\ UNCHANGED <<nreq, savedRest>>

\* The response has been sent; the thread takes the next request.
saved_article_done(w) ==
    /\ sa[w].pc = "done"
    /\ sa' = [sa EXCEPT ![w] = IdleSaver]
    /\ UNCHANGED <<blobs, nreq, savedRest>>

InitSaved ==
    /\ gcs_client \in BOOLEAN
    /\ youtube_client = TRUE /\ perplexity_client = "ok" /\ claude_client = TRUE
    /\ gemini_client = "ok" /\ sendgrid = "ok"
    /\ channel = DefaultChannel
    /\ DraftsIdle
    /\ GtpIdle /\ ApiIdle /\ AdapterIdle /\ NewsletterIdle
    /\ PureIdle

NextSaved ==
    \E w \in Workers :
        \/ saved_article_begin(w)
        \/ saved_article_exists(w)
        \/ saved_article_download(w)
        \/ add_saved_article_upload(w)
        \/ delete_saved_article_upload(w)
        \/ saved_article_done(w)

SpecSaved == InitSaved /\ [][NextSaved]_vars

\* Thread w has answered 200 to a request that no other request overlapped,
\* and no request has been received since.
SavedAlone(w) ==
    /\ sa[w].pc = "done" /\ sa[w].status = 200
    /\ ~sa[w].overlap
    /\ sa[w].req = nreq
    /\ \A u \in Workers \ {w} : ~SaverBusy(u)

NoTwoWithOneUrl(articles) ==
    \A i \in 1..Len(articles), j \in 1..Len(articles) :
        articles[i].url = articles[j].url => i = j

\* C27: from an empty list, the stored list never holds two entries with one
\* url; a request that no other overlapped leaves the list it read unchanged
\* when it adds a url that is there already, puts a new article in front of
\* it, and on delete leaves exactly the entries with another url.
C27_ListIsASet ==
    /\ NoTwoWithOneUrl(stored_articles(blobs))
    /\ \A w \in Workers :
          SavedAlone(w) =>
              stored_articles(blobs) =
                  IF sa[w].op = "delete_saved_article"
                  THEN SelectSeq(sa[w].read, LAMBDA a : a.url # sa[w].url)
                  ELSE IF \E i \in 1..Len(sa[w].read) : sa[w].read[i].url = sa[w].url
                  THEN sa[w].read
                  ELSE <<Article(sa[w].url, sa[w].req)>> \o sa[w].read

\* A url saved before is added again, after another one: the list is as it was.
C27_Witness ==
    \E w \in Workers :
        /\ SavedAlone(w) /\ sa[w].op = "add_saved_article" /\ sa[w].req = 3
        /\ sa[w].url = "u1"
        /\ stored_articles(blobs) = <<Article("u2", 2), Article("u1", 1)>>

\* Two add_saved_article requests with different urls overlapped and both
\* answered 200; they are the only requests so far.
TwoAddsOverlapped ==
    /\ nreq = 2
    /\ \A w \in Workers :
          /\ sa[w].op = "add_saved_article" /\ sa[w].pc = "done" /\ sa[w].status = 200
          /\ sa[w].overlap
    /\ \A w \in Workers, u \in Workers : sa[w].url = sa[u].url => w = u

\* C28: when concurrent add_saved_article requests with distinct urls all
\* answer success, the stored list holds every one of their urls.
C28_NoLostAdd ==
    TwoAddsOverlapped =>
        \A w \in Workers :
            \E i \in 1..Len(stored_articles(blobs)) : stored_articles(blobs)[i].url = sa[w].url

(***************************************************************************)
(* A save that overlaps the publication of its draft                       *)
(***************************************************************************)
\* Thread w saved a draft and thread u published that draft, the two
\* requests overlapped and both answered 200.
SavedWhilePublished(w, u) ==
    /\ worker[w].op = "save_draft" /\ worker[w].pc = "done" /\ worker[w].status = 200
    /\ worker[u].op = "publish_draft" /\ worker[u].pc = "done" /\ worker[u].status = 200
    /\ worker[w].overlap /\ worker[u].overlap
    /\ worker[u].name = worker[w].name

StoredAt(name, content) == blob_exists(blobs, name) /\ blobs[name] = content

\* C29: when a save_draft and a publish_draft of the same draft overlap and
\* both answer success, the snapshot of the save is stored afterwards under
\* the draft name or under the published name.
C29_SaveSurvivesPublish ==
    \A w \in Workers, u \in Workers :
        SavedWhilePublished(w, u) =>
            \/ StoredAt(worker[w].name, build_draft(worker[w].req))
            \/ StoredAt(worker[u].file, build_draft(worker[w].req))

(***************************************************************************)
(* Publishing a name that has no blob                                      *)
(***************************************************************************)
\* Thread w is at source_blob.exists() for a name without a blob and takes
\* its step, the call returning.
ExistsReturnsFalse(w) ==
    /\ worker[w].op = "publish_draft" /\ worker[w].pc = "exists"
    /\ ~blob_exists(blobs, worker[w].name)
    /\ worker'[w].pc # "exists"
    /\ worker'[w].status # 500

\* C30: publish_draft on a name for which no blob exists answers 404 and
\* leaves the store as it is: nothing is copied and nothing deleted.
C30_MissingDraftIs404 ==
    [][\A w \in Workers :
          ExistsReturnsFalse(w) =>
              /\ worker'[w].pc = "done" /\ worker'[w].status = 404
              /\ worker'[w].file = <<>>
              /\ blobs' = blobs]_vars

\* A draft is stored; a request to publish another name has answered 404 and
\* the draft is where it was.
C30_Witness ==
    \E w \in Workers :
        /\ worker[w].op = "publish_draft" /\ worker[w].pc = "done" /\ worker[w].status = 404
        /\ ~worker[w].overlap
        /\ ~blob_exists(blobs, worker[w].name) /\ ~blob_exists(blobs, published_name(worker[w].name))
        /\ \E name \in DraftNames : StoredAt(name, build_draft(1))
        /\ DOMAIN blobs \subseteq DraftNames

====
